---- MODULE Spec2Model ----
(***************************************************************************)
(* Model of the social-network backend: the in-memory event bus            *)
(* (internal/events), the transaction manager (internal/db), the users and *)
(* posts and comments repositories and their services.                     *)
(***************************************************************************)
EXTENDS Integers, Sequences, FiniteSets, TLC

(***************************************************************************)
(* Bounds of the model.                                                    *)
(***************************************************************************)
\* longest handler list of one event type
MaxHandlers == 3
\* number of bus calls (Publish, Subscribe, Unsubscribe) made in one behaviour
MaxBusCalls == 5
\* largest row id of a table
MaxID == 2
\* longest query parameter, in characters
MaxParamLen == 3
\* longest Authorization header, in words and spaces
MaxHeaderLen == 3
\* the bus calls of a run that starts from a populated registry
MaxLiveCalls == 3

VARIABLES
    handlers,   \* InMemoryEventBus.handlers: event type -> slice header [len, cap]
    backing,    \* the backing arrays of those slices: event type -> cap -> array
    mu,         \* InMemoryEventBus.mu: [writer, readers]
    bus,        \* per calling flow of control: the frame of its bus call
    busCalls,   \* number of bus calls made so far
    db,         \* the committed rows of the tables users and posts
    seq,        \* the id sequences of the two tables
    txMgr,      \* whether the services have a transaction manager (not nil)
    serving,    \* FALSE while main still registers the event handlers
    req,        \* per request: the frame of its service call
    web         \* the HTTP layer: one request to a helper of that layer

busVars == <<handlers, backing, mu, bus, busCalls>>
svcVars == <<db, seq, txMgr, serving, req>>
webVars == <<web>>
vars == <<handlers, backing, mu, bus, busCalls, db, seq, txMgr, serving, req, web>>

(***************************************************************************)
(* Errors are message chains, outermost message first; nil is empty.       *)
(***************************************************************************)
NilErr == <<>>

Wrap(msg, err) == <<msg>> \o err

(***************************************************************************)
(* Event types (Type() of the events of internal/events/user_events.go).   *)
(***************************************************************************)
UserEventTypes == {"user.created", "user.updated", "user.deleted"}
PostEventTypes == {"post.created", "post.updated", "post.deleted"}
EventTypes == UserEventTypes \cup PostEventTypes

\* the event types the concurrent bus callers use
BusTypes == {"user.created", "post.deleted"}

(***************************************************************************)
(* Event handlers.  A handler value is a closure: a code pointer and the   *)
(* environment it captured.  Two closures made from one function literal   *)
(* share the code pointer.                                                 *)
(*   code "ok"   returns nil                                               *)
(*   code "fail" returns an error naming its environment                   *)
(*   code "once" unsubscribes itself from the event's type, returns nil    *)
(*   code "pub"  publishes an event of type PubTarget on the same bus      *)
(*   code "sub"  subscribes OkH to SubTarget on the same bus               *)
(***************************************************************************)
OkH == [code |-> "ok", env |-> 1]
Fail1 == [code |-> "fail", env |-> 1]
Fail2 == [code |-> "fail", env |-> 2]
OnceH == [code |-> "once", env |-> 1]
PubH == [code |-> "pub", env |-> 1]
SubH == [code |-> "sub", env |-> 1]
NoHandler == [code |-> "nil", env |-> 0]

\* the event type PubH publishes (nobody subscribes to it) and the one SubH
\* subscribes to
PubTarget == "user.updated"
SubTarget == "post.updated"

Handlers == {OkH, Fail1, Fail2, OnceH}

\* fmt.Sprintf("%p", h) of a func value prints its code pointer
PtrString(h) == h.code

\* what a handler returns
HandlerResult(h) ==
    IF h.code = "fail"
    THEN IF h.env = 1 THEN <<"handler 1 failed">> ELSE <<"handler 2 failed">>
    ELSE NilErr

(***************************************************************************)
(* Go slices: a header [len, cap] over a backing array of cap slots.       *)
(***************************************************************************)
\* growslice for a slice of func values: the capacity doubles
GrownCap(cap) == IF cap = 0 THEN 1 ELSE 2 * cap

NilSlice == [len |-> 0, cap |-> 0]

\* no backing array allocated yet
NoArrays == <<>>

\* the elements of the slice hd of event type t, as a sequence
SliceOf(bk, t, hd) ==
    IF hd.cap = 0 THEN <<>> ELSE [k \in 1..hd.len |-> bk[t][hd.cap][k]]

\* the handler list of event type t
Registry(t) == SliceOf(backing, t, handlers[t])

\* append(s, h): in place when a slot is free, else into a grown copy
AppendHeader(hd) ==
    IF hd.len < hd.cap THEN [hd EXCEPT !.len = hd.len + 1]
    ELSE [len |-> hd.len + 1, cap |-> GrownCap(hd.cap)]

AppendBacking(bk, t, hd, h) ==
    IF hd.len < hd.cap
    THEN [bk EXCEPT ![t][hd.cap][hd.len + 1] = h]
    ELSE LET c == GrownCap(hd.cap)
             old == SliceOf(bk, t, hd)
             grown == [k \in 1..c |-> IF k <= hd.len THEN old[k]
                                      ELSE IF k = hd.len + 1 THEN h ELSE NoHandler]
         IN [bk EXCEPT ![t] = (c :> grown) @@ bk[t]]

\* index of the first handler of the slice whose %p equals that of h, 0 if none
FirstMatchByPtr(s, h) ==
    IF \E k \in 1..Len(s) : PtrString(s[k]) = PtrString(h)
    THEN CHOOSE k \in 1..Len(s) :
            /\ PtrString(s[k]) = PtrString(h)
            /\ \A j \in 1..(k - 1) : PtrString(s[j]) # PtrString(h)
    ELSE 0

\* append(handlers[:i], handlers[i+1:]...): the tail moves one slot down in
\* the same backing array; the last slot keeps its old value
RemoveHeader(hd, i) == IF i = 0 THEN hd ELSE [hd EXCEPT !.len = hd.len - 1]

RemoveBacking(bk, t, hd, i) ==
    IF i = 0 THEN bk
    ELSE [bk EXCEPT ![t][hd.cap] =
            [k \in 1..hd.cap |->
                IF k >= i /\ k < hd.len THEN bk[t][hd.cap][k + 1]
                ELSE bk[t][hd.cap][k]]]

(***************************************************************************)
(* The bus calls.  Each caller runs one call at a time.                    *)
(***************************************************************************)
Callers == {1, 2}

IdleFrame ==
    [pc |-> "idle", kind |-> "none", etype |-> "user.created", h |-> NoHandler,
     snap |-> NilSlice, i |-> 0, invoked |-> <<>>, errs |-> <<>>,
     ret |-> NilErr, seen |-> <<>>]

MuFree == mu.writer = 0 /\ mu.readers = {}

\* the Subscribe calls to event type t that have not appended yet
PendingSubscribes(t) ==
    {q \in Callers : /\ bus[q].kind = "subscribe"
                     /\ bus[q].etype = t
                     /\ bus[q].pc \in {"lock", "locked"}}

\* a deferred RUnlock: the read lock stays held while the handlers run
ReadLockKept(readers, p) == readers

\* bus.mu.RUnlock() before the loop over the handlers
RUnlock(readers, p) == readers \ {p}

\* a caller starts Publish(ctx, event), Subscribe(t, h) or Unsubscribe(t, h)
BusCall(p) ==
    /\ bus[p].pc = "idle"
    /\ busCalls < MaxBusCalls
    /\ busCalls' = busCalls + 1
    /\ \E kind \in {"publish", "subscribe", "unsubscribe"}, t \in BusTypes, h \in Handlers :
          /\ kind = "publish" => h = OkH
          /\ kind = "subscribe" =>
                handlers[t].len + Cardinality(PendingSubscribes(t)) < MaxHandlers
          /\ bus' = [bus EXCEPT ![p] =
                [IdleFrame EXCEPT !.pc = "lock", !.kind = kind, !.etype = t,
                                  !.h = IF kind = "publish" THEN NoHandler ELSE h]]
    /\ UNCHANGED <<handlers, backing, mu>>
    /\ UNCHANGED <<svcVars, webVars>>

\* Publish: bus.mu.RLock(); handlers := bus.handlers[event.Type()]
PublishRLock(p) ==
    /\ bus[p].pc = "lock" /\ bus[p].kind = "publish"
    /\ mu.writer = 0
    /\ mu' = [mu EXCEPT !.readers = @ \cup {p}]
    /\ bus' = [bus EXCEPT ![p].pc = "runlock",
                          ![p].snap = handlers[bus[p].etype],
                          ![p].seen = Registry(bus[p].etype)]
    /\ UNCHANGED <<handlers, backing, busCalls>>
    /\ UNCHANGED <<svcVars, webVars>>

\* Publish: bus.mu.RUnlock()
PublishRUnlock(p) ==
    /\ bus[p].pc = "runlock"
    /\ mu' = [mu EXCEPT !.readers = RUnlock(@, p)]
    /\ bus' = [bus EXCEPT ![p].pc = "dispatch"]
    /\ UNCHANGED <<handlers, backing, busCalls>>
    /\ UNCHANGED <<svcVars, webVars>>

\* Publish: one iteration of `for _, handler := range handlers`
PublishDispatch(p) ==
    /\ bus[p].pc = "dispatch"
    /\ bus[p].i < bus[p].snap.len
    /\ LET t == bus[p].etype
           h == backing[t][bus[p].snap.cap][bus[p].i + 1]
           err == HandlerResult(h)
           k == FirstMatchByPtr(Registry(t), h)
       IN /\ h.code \in {"once", "sub"} => MuFree
          /\ h.code = "pub" => mu.writer = 0
          /\ bus' = [bus EXCEPT ![p].i = @ + 1,
                                ![p].invoked = Append(@, h),
                                ![p].errs = IF err # NilErr THEN Append(@, err) ELSE @]
          /\ IF h.code = "once"
             THEN /\ handlers' = [handlers EXCEPT ![t] = RemoveHeader(@, k)]
                  /\ backing' = RemoveBacking(backing, t, handlers[t], k)
             ELSE IF h.code = "sub"
             THEN /\ handlers' = [handlers EXCEPT ![SubTarget] = AppendHeader(@)]
                  /\ backing' = AppendBacking(backing, SubTarget, handlers[SubTarget], OkH)
             ELSE UNCHANGED <<handlers, backing>>
    /\ UNCHANGED <<mu, busCalls>>
    /\ UNCHANGED <<svcVars, webVars>>

RECURSIVE Flatten(_)
Flatten(es) == IF es = <<>> THEN <<>> ELSE Head(es) \o Flatten(Tail(es))

\* fmt.Errorf("event handling errors: %v", errs), or nil
PublishError(errs) ==
    IF Len(errs) > 0 THEN Wrap("event handling errors", Flatten(errs)) ELSE NilErr

\* Publish: the loop is over; return
PublishReturn(p) ==
    /\ bus[p].pc = "dispatch"
    /\ bus[p].i = bus[p].snap.len
    /\ bus' = [bus EXCEPT ![p].pc = "done", ![p].ret = PublishError(bus[p].errs)]
    /\ UNCHANGED <<handlers, backing, mu, busCalls>>
    /\ UNCHANGED <<svcVars, webVars>>

\* Subscribe / Unsubscribe: bus.mu.Lock()
WriteLock(p) ==
    /\ bus[p].pc = "lock" /\ bus[p].kind \in {"subscribe", "unsubscribe"}
    /\ MuFree
    /\ mu' = [mu EXCEPT !.writer = p]
    /\ bus' = [bus EXCEPT ![p].pc = "locked"]
    /\ UNCHANGED <<handlers, backing, busCalls>>
    /\ UNCHANGED <<svcVars, webVars>>

\* Subscribe: the append, then the deferred Unlock
Subscribe(p) ==
    /\ bus[p].pc = "locked" /\ bus[p].kind = "subscribe"
    /\ LET t == bus[p].etype
       IN /\ handlers' = [handlers EXCEPT ![t] = AppendHeader(@)]
          /\ backing' = AppendBacking(backing, t, handlers[t], bus[p].h)
    /\ mu' = [mu EXCEPT !.writer = 0]
    /\ bus' = [bus EXCEPT ![p].pc = "done"]
    /\ UNCHANGED busCalls
    /\ UNCHANGED <<svcVars, webVars>>

\* Unsubscribe: the search by %p, the removal, then the deferred Unlock
Unsubscribe(p) ==
    /\ bus[p].pc = "locked" /\ bus[p].kind = "unsubscribe"
    /\ LET t == bus[p].etype
           k == FirstMatchByPtr(Registry(t), bus[p].h)
       IN /\ handlers' = [handlers EXCEPT ![t] = RemoveHeader(@, k)]
          /\ backing' = RemoveBacking(backing, t, handlers[t], k)
    /\ mu' = [mu EXCEPT !.writer = 0]
    /\ bus' = [bus EXCEPT ![p].pc = "done"]
    /\ UNCHANGED busCalls
    /\ UNCHANGED <<svcVars, webVars>>

\* the call has returned; the caller may call again
BusReturn(p) ==
    /\ bus[p].pc = "done"
    /\ bus' = [bus EXCEPT ![p] = IdleFrame]
    /\ UNCHANGED <<handlers, backing, mu, busCalls>>
    /\ UNCHANGED <<svcVars, webVars>>

(***************************************************************************)
(* Storage: the tables users and posts.  A deleted row stays in its table  *)
(* with the deletion mark set (gorm.DeletedAt).                            *)
(***************************************************************************)
IDs == 1..MaxID

NoRow == [exists |-> FALSE]

UserRow(username, email) ==
    [exists |-> TRUE, username |-> username, email |-> email, deleted |-> FALSE]

PostRow(title, content, userID) ==
    [exists |-> TRUE, title |-> title, content |-> content, userID |-> userID,
     deleted |-> FALSE]

CommentRow(postID, content, userID) ==
    [exists |-> TRUE, postID |-> postID, content |-> content, userID |-> userID,
     deleted |-> FALSE]

\* the default scope of a model with a DeletedAt field: deleted_at IS NULL
Visible(row) == row.exists /\ ~row.deleted

\* a write of one row, and its effect on a database value
Write(table, id, row) == [table |-> table, id |-> id, row |-> row]

RECURSIVE Apply(_, _)
Apply(d, ws) ==
    IF ws = <<>> THEN d
    ELSE Apply([d EXCEPT ![Head(ws).table][Head(ws).id] = Head(ws).row], Tail(ws))

(***************************************************************************)
(* Errors of the domain, the repositories and the storage.                 *)
(***************************************************************************)
ErrUserNotFound == <<"not found", "user">>
ErrUserAlreadyExists == <<"conflict", "user already exists">>
ErrInvalidUsername == <<"validation failed", "invalid username">>
ErrInvalidEmail == <<"validation failed", "invalid email">>
ErrInvalidPassword == <<"validation failed", "invalid password">>
ErrInvalidTitle == <<"validation failed", "invalid title">>
ErrInvalidContent == <<"validation failed", "invalid content">>
ErrPostNotFound == <<"post not found">>
ErrForbidden == <<"forbidden: you can only modify your own posts">>
ErrCommentNotFound == <<"not found", "comment">>
ErrCommentForbidden == <<"forbidden", "you can only modify your own comments">>
\* errors of the storage driver
ErrStorage == <<"storage error">>
ErrDuplicateKey == <<"duplicate key value violates unique constraint">>
ErrBegin == <<"begin failed">>
ErrCommit == <<"commit failed">>

\* len(s) of the strings the requests carry
StrLen(str) ==
    CASE str = "" -> 0
      [] str = "al" -> 2
      [] str = "pw" -> 2
      [] str = "bob" -> 3
      [] str = "alice" -> 5
      [] str = "secret1" -> 7
      [] OTHER -> 4

\* an absent optional field of an update request (a nil pointer)
Nil == "<nil>"

(***************************************************************************)
(* internal/domain: validation and permission predicates.                  *)
(***************************************************************************)
\* User.Validate
UserValidate(username, email) ==
    IF StrLen(username) < 3 THEN ErrInvalidUsername
    ELSE IF StrLen(username) > 100 THEN ErrInvalidUsername
    ELSE IF StrLen(email) = 0 THEN ErrInvalidEmail
    ELSE NilErr

\* User.SetPassword (the hashing itself does not fail)
SetPassword(password) == IF StrLen(password) < 6 THEN ErrInvalidPassword ELSE NilErr

\* User.UpdateUsername, User.UpdateEmail
UpdateUsername(username) ==
    IF StrLen(username) < 3 \/ StrLen(username) > 100 THEN ErrInvalidUsername ELSE NilErr

UpdateEmail(email) == IF StrLen(email) = 0 THEN ErrInvalidEmail ELSE NilErr

\* Post.Validate, Post.UpdateTitle, Post.UpdateContent
PostValidate(title, content) ==
    IF StrLen(title) = 0 \/ StrLen(title) > 255 THEN ErrInvalidTitle
    ELSE IF StrLen(content) = 0 THEN ErrInvalidContent
    ELSE NilErr

UpdateTitle(title) ==
    IF StrLen(title) = 0 \/ StrLen(title) > 255 THEN ErrInvalidTitle ELSE NilErr

UpdateContent(content) == IF StrLen(content) = 0 THEN ErrInvalidContent ELSE NilErr

\* a post that anyone may edit
EditableByAnyone(post, userID) == TRUE

\* Post.CanBeEditedBy, Post.CanBeDeletedBy
CanBeEditedBy(post, userID) == post.userID = userID

CanBeDeletedBy(post, userID) == post.userID = userID

(***************************************************************************)
(* The requests.  Each request is one call of a service method.            *)
(***************************************************************************)
Requests == {1, 2}

UsersCreateCalls ==
    {[svc |-> "users", op |-> "create", id |-> 0, userID |-> 0,
      username |-> c[1], email |-> c[2], password |-> c[3]] :
        c \in {<<"alice", "b@x", "secret1">>, <<"bob", "a@x", "secret1">>,
               <<"bob", "b@x", "secret1">>, <<"al", "b@x", "secret1">>,
               <<"bob", "", "secret1">>, <<"bob", "b@x", "pw">>}}

UsersUpdateCalls ==
    {[svc |-> "users", op |-> "update", id |-> i, userID |-> 0,
      username |-> c[1], email |-> c[2], password |-> Nil] :
        i \in IDs, c \in {<<"bob", Nil>>, <<Nil, "b@x">>, <<"al", Nil>>, <<"alice", Nil>>}}

UsersDeleteCalls ==
    {[svc |-> "users", op |-> "delete", id |-> i, userID |-> 0] : i \in IDs}

PostsCreateCalls ==
    {[svc |-> "posts", op |-> "create", id |-> 0, userID |-> u,
      title |-> t, content |-> "c1"] : u \in IDs, t \in {"t2", ""}}

PostsUpdateCalls ==
    {[svc |-> "posts", op |-> "update", id |-> i, userID |-> u,
      title |-> c[1], content |-> c[2]] :
        i \in IDs, u \in IDs, c \in {<<"t2", Nil>>, <<Nil, "c2">>, <<"", Nil>>}}

PostsDeleteCalls ==
    {[svc |-> "posts", op |-> "delete", id |-> i, userID |-> u] : i \in IDs, u \in IDs}

CommentsCreateCalls ==
    {[svc |-> "comments", op |-> "create", id |-> 0, userID |-> u,
      postID |-> 1, content |-> "k2"] : u \in IDs}

CommentsUpdateCalls ==
    {[svc |-> "comments", op |-> "update", id |-> i, userID |-> u, content |-> "k2"] :
        i \in IDs, u \in IDs}

CommentsDeleteCalls ==
    {[svc |-> "comments", op |-> "delete", id |-> i, userID |-> u] : i \in IDs, u \in IDs}

Calls ==
    UsersCreateCalls \cup UsersUpdateCalls \cup UsersDeleteCalls
        \cup PostsCreateCalls \cup PostsUpdateCalls \cup PostsDeleteCalls
        \cup CommentsCreateCalls \cup CommentsUpdateCalls \cup CommentsDeleteCalls

NoCall == [svc |-> "none", op |-> "none", id |-> 0, userID |-> 0]

\* the frame of a request that has not called yet
IdleReq ==
    [pc |-> "idle",
     call |-> NoCall,       \* the method and its arguments
     model |-> NoRow,       \* the row read by GetByID; then the row to write
     tx |-> "none",         \* the transaction of WithTransaction
     pending |-> <<>>,      \* the writes executed on the transaction
     made |-> <<>>,         \* the writes of repository calls given txCtx
     durable |-> <<>>,      \* the writes of this call that reached the tables
     newID |-> 0,           \* the id the storage assigned on Create
     fnErr |-> NilErr,      \* what fn returned to WithTransaction
     persistErr |-> NilErr, \* createErr / updateErr / deleteErr
     err |-> NilErr,        \* the error the method returned
     pubs |-> <<>>,         \* the events this call published
     pubCtxTx |-> FALSE,    \* whether the ctx given to Publish carried a handle
     pubErr |-> NilErr,     \* what Publish returned
     saw |-> NoRow,         \* the entity as read by a handler through that ctx
     cancelledAt |-> "no",  \* where the call was when its ctx was cancelled
     phases |-> <<>>]       \* what the call did so far, in order: "validate",
                            \* "read", "tx" (WithTransaction), "write", "publish"

(***************************************************************************)
(* internal/db: the context-carried transaction.                           *)
(***************************************************************************)
\* the database as seen through the transaction of request r
TxView(r) == Apply(db, req[r].pending)

\* a context is modelled by whether it carries a transaction handle; the
\* context a service method is called with carries none
CallerCtx == FALSE

\* a WithTransaction that hands fn the caller's context as it is
SameCtx(ctx) == ctx

\* context.WithValue(ctx, txKey, tx): the derived context carries the handle
WithTxValue(ctx) == TRUE

\* a GetDBFromContext that hands out the transaction whatever ctx carries
AlwaysTransaction(r, ctxTx) == "tx"

\* GetDBFromContext(ctx, defaultDB): the transaction when ctx carries one
GetDBFromContext(r, ctxTx) == IF ctxTx THEN "tx" ELSE "default"

\* users repository: getDB(ctx); posts repository: r.db
RepoDB(svc, r, ctxTx) ==
    IF svc = "users" THEN GetDBFromContext(r, ctxTx) ELSE "default"

\* the rows a statement on connection conn of request r reads
ViewOf(r, conn) == IF conn = "tx" THEN TxView(r) ELSE db

\* a transaction manager that reports fn's error inside a TransactionError
TransactionErrorReturn(fnErr, commitErr) ==
    IF fnErr # NilErr THEN Wrap("transaction error", fnErr) ELSE commitErr

\* gorm's Transaction: fn's error is returned as it is, else Commit's
TransactionReturn(fnErr, commitErr) == IF fnErr # NilErr THEN fnErr ELSE commitErr

\* a Transaction that neither commits nor rolls back when fn or Commit failed
LeftOpenOnFailure(fnErr, commitErr) ==
    IF fnErr = NilErr /\ commitErr = NilErr THEN "committed" ELSE "open"

\* gorm's Transaction: commit only when fn returned nil and Commit succeeded
TransactionOutcome(fnErr, commitErr) ==
    IF fnErr = NilErr /\ commitErr = NilErr THEN "committed" ELSE "rolledback"

(***************************************************************************)
(* The repositories.                                                       *)
(***************************************************************************)
Table(svc) == svc

\* First(&row, id) under the default scope
GetByID(d, table, id) == IF Visible(d[table][id]) THEN d[table][id] ELSE NoRow

\* posts repository.List and Count: Find and Count under the default scope
PostsList(d) == {i \in IDs : Visible(d.posts[i])}

PostsCount(d) == Cardinality(PostsList(d))

\* Where("username = ?", username).First(&user): the row of the smallest id
UsersGetByUsername(d, username) ==
    LET found == {i \in IDs : Visible(d.users[i]) /\ d.users[i].username = username}
    IN IF found = {} THEN 0 ELSE CHOOSE i \in found : \A j \in found : i <= j

UsersGetByEmail(d, email) ==
    LET found == {i \in IDs : Visible(d.users[i]) /\ d.users[i].email = email}
    IN IF found = {} THEN 0 ELSE CHOOSE i \in found : \A j \in found : i <= j

\* the unique indexes of users.Model cover every row of the table
UniqueViolation(d, id, row) ==
    \E i \in IDs \ {id} :
        /\ d.users[i].exists
        /\ d.users[i].username = row.username \/ d.users[i].email = row.email

\* the "failed to ..." message a repository wraps a storage error in
RepoMessage(svc, op) ==
    IF svc = "users"
    THEN CASE op = "create" -> "failed to create user"
           [] op = "update" -> "failed to update user"
           [] OTHER -> "failed to delete user"
    ELSE IF svc = "comments"
    THEN CASE op = "create" -> "failed to create comment"
           [] op = "update" -> "failed to update comment"
           [] OTHER -> "failed to delete comment"
    ELSE CASE op = "create" -> "failed to create post"
           [] op = "update" -> "failed to update post"
           [] OTHER -> "failed to delete post"

RepoNotFound(svc) ==
    CASE svc = "users" -> ErrUserNotFound
      [] svc = "comments" -> ErrCommentNotFound
      [] OTHER -> ErrPostNotFound

\* a Delete that never looks at RowsAffected
IgnoresRowsAffected(svc) == FALSE

\* the users and posts repositories report a Delete that marked no row;
\* the comments repository does not look at RowsAffected
DeleteChecksRowsAffected(svc) == svc # "comments"

\* the statement of repository.Create / Update / Delete on the rows d:
\* the error it returns and the rows it writes.
\*   Create  inserts the row under the next id of the sequence
\*   Update  is Save: all fields of the row of that id are written and the
\*           deletion mark is cleared (an upsert when no live row matched)
\*   Delete  marks the live row of that id; ErrNotFound when none was marked
\*           (users, posts)
Statement(d, svc, op, id, row, fail) ==
    IF fail THEN [err |-> Wrap(RepoMessage(svc, op), ErrStorage), writes |-> <<>>]
    ELSE IF op = "delete"
    THEN IF Visible(d[Table(svc)][id])
         THEN [err |-> NilErr,
               writes |-> <<Write(Table(svc), id, [d[Table(svc)][id] EXCEPT !.deleted = TRUE])>>]
         ELSE IF DeleteChecksRowsAffected(svc)
         THEN [err |-> RepoNotFound(svc), writes |-> <<>>]
         ELSE [err |-> NilErr, writes |-> <<>>]
    ELSE IF svc = "users" /\ UniqueViolation(d, id, row)
    THEN [err |-> Wrap(RepoMessage(svc, op), ErrDuplicateKey), writes |-> <<>>]
    ELSE [err |-> NilErr, writes |-> <<Write(Table(svc), id, row)>>]

\* an Update that re-reads the row when it writes and changes only the
\* fields its request names
RowMergedAtWrite(c, model, d) ==
    IF c.op # "update" \/ ~d[Table(c.svc)][c.id].exists THEN model
    ELSE IF c.svc = "users"
    THEN [d.users[c.id] EXCEPT
            !.username = IF c.username # Nil THEN c.username ELSE @,
            !.email = IF c.email # Nil THEN c.email ELSE @,
            !.deleted = FALSE]
    ELSE IF c.svc = "posts"
    THEN [d.posts[c.id] EXCEPT
            !.title = IF c.title # Nil THEN c.title ELSE @,
            !.content = IF c.content # Nil THEN c.content ELSE @,
            !.deleted = FALSE]
    ELSE model

\* the row a method hands to the repository: the model it built from the
\* row it read at its beginning (domainToModel), whatever the rows d of the
\* table hold by now
RowToWrite(c, model, d) == model

\* a statement waits while another open transaction holds an uncommitted
\* write of the same row or of the same unique key
Blocked(r, svc, id, row) ==
    \E o \in Requests \ {r} : \E k \in 1..Len(req[o].pending) :
        LET w == req[o].pending[k]
        IN /\ req[o].tx = "open"
           /\ w.table = Table(svc)
           /\ \/ w.id = id
              \/ /\ svc = "users" /\ row.exists /\ w.row.exists
                 /\ w.row.username = row.username \/ w.row.email = row.email

(***************************************************************************)
(* The services: what a method does before it persists.                    *)
(* readFail names the repository read that fails in the storage (0: none). *)
(***************************************************************************)
\* the result of the part of a method before persistence: the error or the
\* row to write, and the validations ("validate") and repository reads
\* ("read") the method made, in the order it made them
Prepared(phases, model) == [err |-> NilErr, model |-> model, phases |-> phases]

Rejected(phases, err) == [err |-> err, model |-> NoRow, phases |-> phases]

\* users.Service.Create up to the persistence call
UsersCreatePrepare(c, d, readFail) ==
    IF UserValidate(c.username, c.email) # NilErr
    THEN Rejected(<<"validate">>,
                  Wrap("validation failed", UserValidate(c.username, c.email)))
    ELSE IF SetPassword(c.password) # NilErr
    THEN Rejected(<<"validate", "validate">>,
                  Wrap("failed to set password", SetPassword(c.password)))
    ELSE IF readFail = 1
    THEN Rejected(<<"validate", "validate", "read">>,
                  Wrap("failed to check username existence", ErrStorage))
    ELSE IF UsersGetByUsername(d, c.username) # 0
    THEN Rejected(<<"validate", "validate", "read">>, ErrUserAlreadyExists)
    ELSE IF readFail = 2
    THEN Rejected(<<"validate", "validate", "read", "read">>,
                  Wrap("failed to check email existence", ErrStorage))
    ELSE IF UsersGetByEmail(d, c.email) # 0
    THEN Rejected(<<"validate", "validate", "read", "read">>, ErrUserAlreadyExists)
    ELSE Prepared(<<"validate", "validate", "read", "read">>,
                  UserRow(c.username, c.email))

\* users.Service.Update up to the persistence call
UsersUpdatePrepare(c, d, readFail) ==
    LET model == GetByID(d, "users", c.id)
        username == IF c.username # Nil THEN c.username ELSE model.username
        email == IF c.email # Nil THEN c.email ELSE model.email
        \* GetByID; then per given field the existence read and the update
        got == <<"read">>
        named == IF c.username # Nil THEN got \o <<"read", "validate">> ELSE got
        mailed == IF c.email # Nil THEN named \o <<"read", "validate">> ELSE named
        keyed == IF c.password # Nil THEN mailed \o <<"validate">> ELSE mailed
    IN IF readFail = 1 THEN Rejected(got, Wrap("failed to get user by id", ErrStorage))
       ELSE IF ~model.exists
       THEN Rejected(got, Wrap("failed to get user by id", ErrUserNotFound))
       ELSE IF c.username # Nil /\ readFail = 2
       THEN Rejected(got \o <<"read">>,
                     Wrap("failed to check username existence", ErrStorage))
       ELSE IF c.username # Nil /\ UsersGetByUsername(d, c.username) \notin {0, c.id}
       THEN Rejected(got \o <<"read">>, ErrUserAlreadyExists)
       ELSE IF c.username # Nil /\ UpdateUsername(c.username) # NilErr
       THEN Rejected(named, Wrap("failed to update username", UpdateUsername(c.username)))
       ELSE IF c.email # Nil /\ readFail = (IF c.username # Nil THEN 3 ELSE 2)
       THEN Rejected(named \o <<"read">>,
                     Wrap("failed to check email existence", ErrStorage))
       ELSE IF c.email # Nil /\ UsersGetByEmail(d, c.email) \notin {0, c.id}
       THEN Rejected(named \o <<"read">>, ErrUserAlreadyExists)
       ELSE IF c.email # Nil /\ UpdateEmail(c.email) # NilErr
       THEN Rejected(mailed, Wrap("failed to update email", UpdateEmail(c.email)))
       ELSE IF c.password # Nil /\ SetPassword(c.password) # NilErr
       THEN Rejected(keyed, Wrap("failed to set password", SetPassword(c.password)))
       ELSE IF UserValidate(username, email) # NilErr
       THEN Rejected(keyed \o <<"validate">>,
                     Wrap("validation failed", UserValidate(username, email)))
       ELSE Prepared(keyed \o <<"validate">>, UserRow(username, email))

\* users.Service.Delete up to the persistence call
UsersDeletePrepare(c, d, readFail) ==
    LET model == GetByID(d, "users", c.id)
    IN IF readFail = 1
       THEN Rejected(<<"read">>, Wrap("failed to get user by id", ErrStorage))
       ELSE IF ~model.exists
       THEN Rejected(<<"read">>, Wrap("failed to get user by id", ErrUserNotFound))
       ELSE Prepared(<<"read">>, model)

\* a posts.Service.Create that does not look the user up
PostsCreateUnchecked(c, d, readFail) ==
    Prepared(<<"validate">>, PostRow(c.title, c.content, c.userID))

\* posts.Service.Create up to the persistence call
PostsCreatePrepare(c, d, readFail) ==
    IF readFail = 1
    THEN Rejected(<<"read">>, Wrap("failed to check user existence", ErrStorage))
    ELSE IF ~GetByID(d, "users", c.userID).exists
    THEN Rejected(<<"read">>, Wrap("failed to check user existence", ErrUserNotFound))
    ELSE IF PostValidate(c.title, c.content) # NilErr
    THEN Rejected(<<"read", "validate">>,
                  Wrap("validation failed", PostValidate(c.title, c.content)))
    ELSE Prepared(<<"read", "validate">>, PostRow(c.title, c.content, c.userID))

\* posts.Service.Update up to the persistence call
PostsUpdatePrepare(c, d, readFail) ==
    LET model == GetByID(d, "posts", c.id)
        title == IF c.title # Nil THEN c.title ELSE model.title
        content == IF c.content # Nil THEN c.content ELSE model.content
        got == <<"read">>
        titled == IF c.title # Nil THEN got \o <<"validate">> ELSE got
        filled == IF c.content # Nil THEN titled \o <<"validate">> ELSE titled
    IN IF readFail = 1 THEN Rejected(got, Wrap("failed to get post by id", ErrStorage))
       ELSE IF ~model.exists
       THEN Rejected(got, Wrap("failed to get post by id", ErrPostNotFound))
       ELSE IF ~CanBeEditedBy(model, c.userID) THEN Rejected(got, ErrForbidden)
       ELSE IF c.title # Nil /\ UpdateTitle(c.title) # NilErr
       THEN Rejected(titled, Wrap("failed to update title", UpdateTitle(c.title)))
       ELSE IF c.content # Nil /\ UpdateContent(c.content) # NilErr
       THEN Rejected(filled, Wrap("failed to update content", UpdateContent(c.content)))
       ELSE IF PostValidate(title, content) # NilErr
       THEN Rejected(filled \o <<"validate">>,
                     Wrap("validation failed", PostValidate(title, content)))
       ELSE Prepared(filled \o <<"validate">>, PostRow(title, content, model.userID))

\* posts.Service.Delete up to the persistence call
PostsDeletePrepare(c, d, readFail) ==
    LET model == GetByID(d, "posts", c.id)
    IN IF readFail = 1
       THEN Rejected(<<"read">>, Wrap("failed to get post by id", ErrStorage))
       ELSE IF ~model.exists
       THEN Rejected(<<"read">>, Wrap("failed to get post by id", ErrPostNotFound))
       ELSE IF ~CanBeDeletedBy(model, c.userID) THEN Rejected(<<"read">>, ErrForbidden)
       ELSE Prepared(<<"read">>, model)

\* comments.Service.Create up to the persistence call: no check at all
CommentsCreatePrepare(c, d, readFail) ==
    Prepared(<<>>, CommentRow(c.postID, c.content, c.userID))

\* comments.Service.Update up to the persistence call
CommentsUpdatePrepare(c, d, readFail) ==
    LET comment == GetByID(d, "comments", c.id)
    IN IF readFail = 1
       THEN Rejected(<<"read">>,
                     Wrap("failed to get comment by id",
                          Wrap("failed to get comment by id", ErrStorage)))
       ELSE IF ~comment.exists
       THEN Rejected(<<"read">>, Wrap("failed to get comment by id", ErrCommentNotFound))
       ELSE IF comment.userID # c.userID THEN Rejected(<<"read">>, ErrCommentForbidden)
       ELSE Prepared(<<"read">>,
                     CommentRow(comment.postID,
                                IF c.content # Nil THEN c.content ELSE comment.content,
                                comment.userID))

\* comments.Service.Delete up to the persistence call
CommentsDeletePrepare(c, d, readFail) ==
    LET comment == GetByID(d, "comments", c.id)
    IN IF readFail = 1
       THEN Rejected(<<"read">>,
                     Wrap("failed to get comment by id",
                          Wrap("failed to get comment by id", ErrStorage)))
       ELSE IF ~comment.exists
       THEN Rejected(<<"read">>, Wrap("failed to get comment by id", ErrCommentNotFound))
       ELSE IF comment.userID # c.userID THEN Rejected(<<"read">>, ErrCommentForbidden)
       ELSE Prepared(<<"read">>, comment)

PrepareResult(c, d, readFail) ==
    CASE c.svc = "comments" /\ c.op = "create" -> CommentsCreatePrepare(c, d, readFail)
      [] c.svc = "comments" /\ c.op = "update" -> CommentsUpdatePrepare(c, d, readFail)
      [] c.svc = "comments" /\ c.op = "delete" -> CommentsDeletePrepare(c, d, readFail)
      [] c.svc = "users" /\ c.op = "create" -> UsersCreatePrepare(c, d, readFail)
      [] c.svc = "users" /\ c.op = "update" -> UsersUpdatePrepare(c, d, readFail)
      [] c.svc = "users" /\ c.op = "delete" -> UsersDeletePrepare(c, d, readFail)
      [] c.svc = "posts" /\ c.op = "create" -> PostsCreatePrepare(c, d, readFail)
      [] c.svc = "posts" /\ c.op = "update" -> PostsUpdatePrepare(c, d, readFail)
      [] OTHER -> PostsDeletePrepare(c, d, readFail)

\* number of repository reads a method makes before it persists
ReadsOf(c) ==
    IF c.svc = "users" /\ c.op # "delete" THEN 2
    ELSE IF c.svc = "comments" /\ c.op = "create" THEN 0
    ELSE 1

\* the users and posts services run the write inside WithTransaction when
\* they have a transaction manager; the comments service never uses its own
UsesTransaction(svc) == txMgr /\ svc # "comments"

\* the users and posts services publish an event; the comments service
\* never uses its event bus
HasPublish(svc) == svc # "comments"

\* the message a method wraps the persistence error in
ServiceMessage(c) == RepoMessage(c.svc, c.op)

\* the event a method publishes about the entity id
EventType(c) ==
    IF c.svc = "users"
    THEN CASE c.op = "create" -> "user.created"
           [] c.op = "update" -> "user.updated"
           [] OTHER -> "user.deleted"
    ELSE CASE c.op = "create" -> "post.created"
           [] c.op = "update" -> "post.updated"
           [] OTHER -> "post.deleted"

EventOf(c, id) == [type |-> EventType(c), id |-> id]

\* a method that publishes whatever the persistence call returned
PublishAlways(persistErr) == TRUE

\* the method publishes only when the persistence error is nil
ShouldPublish(persistErr) == persistErr = NilErr

\* a method that hands the transaction's context on to Publish
PublishWithTxCtx(ctx, txCtx) == txCtx

\* the context the method hands to Publish: ctx, and never txCtx
PublishCtx(ctx, txCtx) == ctx

\* a method that returns the error of Publish
ReturnPublishError(pubErr) == pubErr

\* `_ = s.eventBus.Publish(...)`: the method returns nil whatever Publish returned
ReturnAfterPublish(pubErr) == NilErr

\* Publish over the handler list s, without concurrent bus calls
RECURSIVE ErrsOf(_)
ErrsOf(s) ==
    IF s = <<>> THEN <<>>
    ELSE (IF HandlerResult(Head(s)) = NilErr THEN <<>> ELSE <<HandlerResult(Head(s))>>)
            \o ErrsOf(Tail(s))

(***************************************************************************)
(* Start-up: the handlers of the deployment are subscribed before the      *)
(* first request is served.                                                *)
(***************************************************************************)
HandlerPlans == {<<>>, <<OkH>>, <<Fail1>>, <<OkH, Fail1>>}

RECURSIVE SubscribeEach(_, _, _)
SubscribeEach(st, t, plan) ==
    IF plan = <<>> THEN st
    ELSE SubscribeEach([hd |-> [st.hd EXCEPT ![t] = AppendHeader(st.hd[t])],
                        bk |-> AppendBacking(st.bk, t, st.hd[t], Head(plan))],
                       t, Tail(plan))

RECURSIVE SubscribeAll(_, _, _)
SubscribeAll(st, types, plan) ==
    IF types = {} THEN st
    ELSE LET t == CHOOSE u \in types : TRUE
         IN SubscribeAll(SubscribeEach(st, t, plan), types \ {t}, plan)

Startup ==
    /\ ~serving
    /\ \E plan \in HandlerPlans :
          LET st == SubscribeAll([hd |-> handlers, bk |-> backing], EventTypes, plan)
          IN /\ handlers' = st.hd
             /\ backing' = st.bk
    /\ serving' = TRUE
    /\ UNCHANGED <<mu, bus, busCalls, db, seq, txMgr, req, web>>

(***************************************************************************)
(* The service calls.                                                      *)
(***************************************************************************)
\* a request calls a service method
Call(r) ==
    /\ serving
    /\ req[r].pc = "idle"
    /\ \E c \in Calls : req' = [req EXCEPT ![r].pc = "entered", ![r].call = c]
    /\ UNCHANGED <<busVars, webVars, db, seq, txMgr, serving>>

\* the request context is cancelled (the client went away, a timeout
\* passed) while the call is running; from then on every statement given
\* ctx or a context derived from it fails, Begin fails, and an open
\* transaction is rolled back, so that its Commit fails
Cancelled(r) == req[r].cancelledAt # "no"

Cancel(r) ==
    /\ req[r].pc \in {"entered", "persist", "fn", "txend"}
    /\ ~Cancelled(r)
    /\ req' = [req EXCEPT ![r].cancelledAt = req[r].pc]
    /\ UNCHANGED <<busVars, webVars, db, seq, txMgr, serving>>

\* the method validates and reads through ctx, up to the persistence call
Prepare(r) ==
    /\ req[r].pc = "entered"
    /\ \E readFail \in 0..ReadsOf(req[r].call) :
          /\ (Cancelled(r) /\ ReadsOf(req[r].call) > 0) => readFail = 1
          /\ LET res == PrepareResult(req[r].call, ViewOf(r, GetDBFromContext(r, CallerCtx)), readFail)
             IN req' = [req EXCEPT ![r].pc = IF res.err = NilErr THEN "persist" ELSE "done",
                                   ![r].model = res.model,
                                   ![r].phases = res.phases,
                                   ![r].err = res.err]
    /\ UNCHANGED <<busVars, webVars, db, seq, txMgr, serving>>

\* WithTransaction: gorm's Transaction begins, or fails to begin
Begin(r) ==
    /\ req[r].pc = "persist"
    /\ UsesTransaction(req[r].call.svc)
    /\ \E ok \in BOOLEAN :
          /\ Cancelled(r) => ~ok
          /\ req' = IF ok THEN [req EXCEPT ![r].pc = "fn", ![r].tx = "open",
                                           ![r].phases = Append(@, "tx")]
                    ELSE [req EXCEPT ![r].pc = "after", ![r].persistErr = ErrBegin,
                                     ![r].phases = Append(@, "tx")]
    /\ UNCHANGED <<busVars, webVars, db, seq, txMgr, serving>>

\* the repository call: repo.Create / Update / Delete with txCtx inside fn,
\* with ctx when the service has no transaction manager
RepoWrite(r) ==
    LET c == req[r].call
        inFn == req[r].pc = "fn"
        ctxTx == IF inFn THEN WithTxValue(CallerCtx) ELSE CallerCtx
        conn == RepoDB(c.svc, r, ctxTx)
        id == IF c.op = "create" THEN seq[Table(c.svc)] ELSE c.id
    IN /\ req[r].pc = "fn" \/ (req[r].pc = "persist" /\ ~UsesTransaction(c.svc))
       /\ ~Blocked(r, c.svc, id, req[r].model)
       /\ \E fail \in BOOLEAN :
             LET res == Statement(ViewOf(r, conn), c.svc, c.op, id,
                                  RowToWrite(c, req[r].model, ViewOf(r, conn)), fail)
                 created == c.op = "create" /\ res.writes # <<>>
             IN /\ Cancelled(r) => fail
                /\ created => id <= MaxID
                /\ req' = [req EXCEPT
                      ![r].pc = IF inFn THEN "txend" ELSE "after",
                      ![r].phases = Append(@, "write"),
                      ![r].fnErr = IF inFn THEN res.err ELSE NilErr,
                      ![r].persistErr = IF inFn THEN NilErr ELSE res.err,
                      ![r].newID = IF created THEN id ELSE 0,
                      ![r].made = IF ctxTx THEN res.writes ELSE <<>>,
                      ![r].pending = IF conn = "tx" THEN res.writes ELSE <<>>,
                      ![r].durable = IF conn = "tx" THEN <<>> ELSE res.writes]
                /\ db' = IF conn = "tx" THEN db ELSE Apply(db, res.writes)
                /\ seq' = IF created THEN [seq EXCEPT ![Table(c.svc)] = id + 1] ELSE seq
       /\ UNCHANGED <<busVars, webVars, txMgr, serving>>

\* gorm's Transaction after fn: Rollback when fn failed, else Commit, which
\* may fail and then leaves the transaction rolled back
TxEnd(r) ==
    /\ req[r].pc = "txend"
    /\ \E commitFail \in BOOLEAN :
          LET commitErr == IF commitFail THEN ErrCommit ELSE NilErr
              outcome == TransactionOutcome(req[r].fnErr, commitErr)
          IN /\ commitFail => req[r].fnErr = NilErr
             /\ (Cancelled(r) /\ req[r].fnErr = NilErr) => commitFail
             /\ req' = [req EXCEPT
                   ![r].pc = "after",
                   ![r].tx = outcome,
                   ![r].persistErr = TransactionReturn(req[r].fnErr, commitErr),
                   ![r].durable = IF outcome = "committed"
                                  THEN req[r].durable \o req[r].pending
                                  ELSE req[r].durable]
             /\ db' = IF outcome = "committed" THEN Apply(db, req[r].pending) ELSE db
    /\ UNCHANGED <<busVars, webVars, seq, txMgr, serving>>

\* after the persistence call: return the wrapped error, or publish the
\* event to the handlers of its type and return
Finish(r) ==
    LET c == req[r].call
        id == IF c.op = "create" THEN req[r].newID ELSE c.id
        pubCtx == PublishCtx(CallerCtx, req[r].tx # "none")
        pubErr == PublishError(ErrsOf(Registry(EventType(c))))
    IN /\ req[r].pc = "after"
       /\ req' = IF HasPublish(c.svc) /\ ShouldPublish(req[r].persistErr)
                 THEN [req EXCEPT
                         ![r].pc = "done",
                         ![r].pubs = Append(req[r].pubs, EventOf(c, id)),
                         ![r].phases = Append(@, "publish"),
                         ![r].pubCtxTx = pubCtx,
                         ![r].pubErr = pubErr,
                         ![r].saw = IF id \in IDs
                                    THEN ViewOf(r, GetDBFromContext(r, pubCtx))[Table(c.svc)][id]
                                    ELSE NoRow,
                         ![r].err = IF req[r].persistErr # NilErr
                                    THEN Wrap(ServiceMessage(c), req[r].persistErr)
                                    ELSE ReturnAfterPublish(pubErr)]
                 ELSE [req EXCEPT
                         ![r].pc = "done",
                         ![r].err = IF req[r].persistErr # NilErr
                                    THEN Wrap(ServiceMessage(c), req[r].persistErr)
                                    ELSE NilErr]
       /\ UNCHANGED <<busVars, webVars, db, seq, txMgr, serving>>

(***************************************************************************)
(* The HTTP layer: internal/http, the auth middleware and auth.Service.    *)
(***************************************************************************)
\* net/http status codes
StatusOK == 200
StatusCreated == 201
StatusNoContent == 204
StatusUnauthorized == 401
StatusForbidden == 403
StatusNotFound == 404
StatusConflict == 409
StatusInternalServerError == 500

\* the frame of the HTTP layer before a request
IdleWeb == [pc |-> "idle", op |-> "none"]

\* the characters of a query parameter
Chars == {"-", "+", "0", "1", "5", "a"}

\* a string is the sequence of its characters
StringsUpTo(alphabet, n) == UNION {[1..k -> alphabet] : k \in 0..n}

IsDigit(ch) == ch \in {"0", "1", "5"}

DigitValue(ch) ==
    CASE ch = "0" -> 0
      [] ch = "1" -> 1
      [] OTHER -> 5

\* the digits read from the left, on top of the value acc read so far
RECURSIVE ParseDigits(_, _)
ParseDigits(str, acc) ==
    IF str = <<>> THEN acc
    ELSE ParseDigits(Tail(str), acc * 10 + DigitValue(Head(str)))

\* strconv.Atoi: an optional sign and then one or more decimal digits
Atoi(str) ==
    LET signed == str # <<>> /\ Head(str) \in {"-", "+"}
        digits == IF signed THEN Tail(str) ELSE str
    IN IF digits = <<>> \/ \E k \in 1..Len(digits) : ~IsDigit(digits[k])
       THEN [err |-> TRUE, n |-> 0]
       ELSE [err |-> FALSE,
             n |-> IF Head(str) = "-" THEN 0 - ParseDigits(digits, 0)
                   ELSE ParseDigits(digits, 0)]

\* a GetPaginationParams without the cap of the limit
UncappedPaginationParams(limitStr, offsetStr) ==
    [limit |-> IF limitStr # <<>> /\ ~Atoi(limitStr).err /\ Atoi(limitStr).n > 0
               THEN Atoi(limitStr).n ELSE 20,
     offset |-> IF offsetStr # <<>> /\ ~Atoi(offsetStr).err /\ Atoi(offsetStr).n >= 0
                THEN Atoi(offsetStr).n ELSE 0]

\* GetPaginationParams on the query parameters limit and offset, where the
\* empty string is what Query().Get returns for an absent parameter
GetPaginationParams(limitStr, offsetStr) ==
    LET parsedLimit == Atoi(limitStr)
        parsedOffset == Atoi(offsetStr)
        limit == IF limitStr # <<>> /\ ~parsedLimit.err /\ parsedLimit.n > 0
                 THEN IF parsedLimit.n > 100 THEN 100 ELSE parsedLimit.n
                 ELSE 20
        offset == IF offsetStr # <<>> /\ ~parsedOffset.err /\ parsedOffset.n >= 0
                  THEN parsedOffset.n
                  ELSE 0
    IN [limit |-> limit, offset |-> offset]

\* a list request with its query parameters
PageRequests ==
    {[pc |-> "called", op |-> "page", limitStr |-> l, offsetStr |-> o] :
        l \in StringsUpTo(Chars, MaxParamLen), o \in StringsUpTo(Chars, MaxParamLen)}

\* the list handler reads its pagination parameters
PageStep ==
    /\ web.pc = "called" /\ web.op = "page"
    /\ web' = [pc |-> "answered", op |-> "page",
               limitStr |-> web.limitStr, offsetStr |-> web.offsetStr,
               page |-> GetPaginationParams(web.limitStr, web.offsetStr)]
    /\ UNCHANGED <<busVars, svcVars>>

\* the words of an Authorization header; a header is a sequence of words
\* and single spaces, a string is the sequence of words it is spelled with
Words == {"Bearer", "bearer", "tok1", "tok2", "expired"}

Space == " "

ErrInvalidToken == <<"invalid or expired token">>

\* strings.Split(str, " "): the parts of str between the spaces
RECURSIVE Split(_)
Split(str) ==
    IF \A k \in 1..Len(str) : str[k] # Space THEN <<str>>
    ELSE LET at == CHOOSE k \in 1..Len(str) :
                       str[k] = Space /\ \A j \in 1..(k - 1) : str[j] # Space
         IN <<SubSeq(str, 1, at - 1)>> \o Split(SubSeq(str, at + 1, Len(str)))

\* auth.Service.ValidateToken: tok1 and tok2 are tokens signed with the
\* secret of the service for the users 1 and 2 and not expired
ValidateToken(token) ==
    CASE token = <<"tok1">> -> [userID |-> 1, err |-> NilErr]
      [] token = <<"tok2">> -> [userID |-> 2, err |-> NilErr]
      [] OTHER -> [userID |-> 0, err |-> ErrInvalidToken]

\* a request context: the value stored under UserIDKey, if any
EmptyCtx == [hasUserID |-> FALSE, userID |-> 0]

WithUserID(ctx, userID) == [ctx EXCEPT !.hasUserID = TRUE, !.userID = userID]

\* middleware.GetUserID
GetUserID(ctx) ==
    IF ctx.hasUserID THEN [userID |-> ctx.userID, ok |-> TRUE]
    ELSE [userID |-> 0, ok |-> FALSE]

\* the middleware answers itself, without calling the wrapped handler
Refuse(status) == [next |-> FALSE, status |-> status, ctx |-> EmptyCtx]

\* an AuthMiddleware that takes the token of a Bearer header only
BearerOnlyMiddleware(authHeader) ==
    LET parts == Split(authHeader)
    IN IF authHeader = <<>> THEN Refuse(StatusUnauthorized)
       ELSE IF Len(parts) # 2 \/ parts[1] # <<"Bearer">> THEN Refuse(StatusUnauthorized)
       ELSE IF ValidateToken(parts[2]).err # NilErr THEN Refuse(StatusUnauthorized)
       ELSE [next |-> TRUE, status |-> StatusOK,
             ctx |-> WithUserID(EmptyCtx, ValidateToken(parts[2]).userID)]

\* AuthMiddleware on the Authorization header of a request: whether the
\* wrapped handler runs, with which context, and the status otherwise
AuthMiddleware(authHeader) ==
    LET parts == Split(authHeader)
        token == IF Len(parts) = 2 /\ parts[1] = <<"Bearer">> THEN parts[2]
                 ELSE parts[1]
    IN IF authHeader = <<>> THEN Refuse(StatusUnauthorized)
       ELSE IF ~(Len(parts) = 2 /\ parts[1] = <<"Bearer">>) /\ Len(parts) # 1
       THEN Refuse(StatusUnauthorized)
       ELSE IF token = <<>> THEN Refuse(StatusUnauthorized)
       ELSE IF ValidateToken(token).err # NilErr THEN Refuse(StatusUnauthorized)
       ELSE [next |-> TRUE, status |-> StatusOK,
             ctx |-> WithUserID(EmptyCtx, ValidateToken(token).userID)]

\* a request with its Authorization header
AuthRequests ==
    {[pc |-> "called", op |-> "auth", authHeader |-> h] :
        h \in StringsUpTo(Words \cup {Space}, MaxHeaderLen)}

\* the request passes through the middleware
AuthStep ==
    /\ web.pc = "called" /\ web.op = "auth"
    /\ web' = [pc |-> "answered", op |-> "auth", authHeader |-> web.authHeader,
               auth |-> AuthMiddleware(web.authHeader)]
    /\ UNCHANGED <<busVars, svcVars>>

ErrInvalidCredentials == <<"invalid email or password">>

ErrMismatchedHashAndPassword == <<"hashedPassword is not the hash of the given password">>

\* passwords a client may send
Passwords == {"pw1", "pw2", ""}

\* bcrypt.GenerateFromPassword, without the salt
Hash(password) == <<"$2a$", password>>

\* a CompareHashAndPassword that accepts every password
AnyPasswordMatches(hash, password) == NilErr

\* bcrypt.CompareHashAndPassword
CompareHashAndPassword(hash, password) ==
    IF hash = Hash(password) THEN NilErr ELSE ErrMismatchedHashAndPassword

\* users.Model.Password of the stored users: user i registered with "pw" i
StoredPassword(id) == IF id = 1 THEN Hash("pw1") ELSE Hash("pw2")

\* users repository.GetByEmail: the id found and the error
RepoGetByEmail(d, email, readFail) ==
    IF readFail
    THEN [id |-> 0, err |-> Wrap("failed to get user by email", ErrStorage)]
    ELSE IF UsersGetByEmail(d, email) = 0 THEN [id |-> 0, err |-> ErrUserNotFound]
    ELSE [id |-> UsersGetByEmail(d, email), err |-> NilErr]

NoToken == [userID |-> 0, email |-> ""]

\* auth.Service.generateToken: the claims the signed token carries
GenerateToken(userID, email) == [userID |-> userID, email |-> email]

\* auth.Service.Login
Login(d, email, password, readFail) ==
    LET got == RepoGetByEmail(d, email, readFail)
    IN IF got.err # NilErr
       THEN IF got.err = ErrUserNotFound
            THEN [err |-> ErrInvalidCredentials, token |-> NoToken]
            ELSE [err |-> Wrap("failed to get user by email", got.err), token |-> NoToken]
       ELSE IF CompareHashAndPassword(StoredPassword(got.id), password) # NilErr
       THEN [err |-> ErrInvalidCredentials, token |-> NoToken]
       ELSE [err |-> NilErr, token |-> GenerateToken(got.id, email)]

\* a login request with its credentials
LoginRequests ==
    {[pc |-> "called", op |-> "login", email |-> e, password |-> pw] :
        e \in {"a@x", "b@x", "c@x"}, pw \in Passwords}

\* the login handler calls auth.Service.Login; the read of the user may fail
LoginStep ==
    /\ web.pc = "called" /\ web.op = "login"
    /\ \E readFail \in BOOLEAN :
          web' = [pc |-> "answered", op |-> "login",
                  email |-> web.email, password |-> web.password,
                  readFail |-> readFail,
                  login |-> Login(db, web.email, web.password, readFail)]
    /\ UNCHANGED <<busVars, svcVars>>

(***************************************************************************)
(* Initial states.                                                         *)
(***************************************************************************)
\* the tables before the first request: one user, one post of that user and
\* one comment of that user on that post
SeedDB ==
    [users |-> [i \in IDs |-> IF i = 1 THEN UserRow("alice", "a@x") ELSE NoRow],
     posts |-> [i \in IDs |-> IF i = 1 THEN PostRow("t1", "c1", 1) ELSE NoRow],
     comments |-> [i \in IDs |-> IF i = 1 THEN CommentRow(1, "k1", 1) ELSE NoRow]]

SeedSeq == [users |-> 2, posts |-> 2, comments |-> 2]

BusInit ==
    /\ handlers = [t \in EventTypes |-> NilSlice]
    /\ backing = [t \in EventTypes |-> NoArrays]
    /\ mu = [writer |-> 0, readers |-> {}]
    /\ bus = [p \in Callers |-> IdleFrame]
    /\ busCalls = 0
    /\ db = SeedDB
    /\ seq = SeedSeq
    /\ txMgr = TRUE
    /\ serving = TRUE
    /\ req = [r \in Requests |-> IdleReq]
    /\ web = IdleWeb

BusNext ==
    \E p \in Callers :
        \/ BusCall(p)
        \/ PublishRLock(p)
        \/ PublishRUnlock(p)
        \/ PublishDispatch(p)
        \/ PublishReturn(p)
        \/ WriteLock(p)
        \/ Subscribe(p)
        \/ Unsubscribe(p)
        \/ BusReturn(p)

BusSpec == BusInit /\ [][BusNext]_vars

\* the bus after the handlers of ReentrantPlan were subscribed to one event
\* type, with room for MaxLiveCalls calls; every call that can take a step
\* takes it, and a call waiting for the mutex gets it (sync.RWMutex queues
\* its waiters)
ReentrantPlan == <<PubH, SubH, OnceH>>

BusLiveInit ==
    /\ LET st == SubscribeEach([hd |-> [t \in EventTypes |-> NilSlice],
                                bk |-> [t \in EventTypes |-> NoArrays]],
                               "user.created", ReentrantPlan)
       IN /\ handlers = st.hd
          /\ backing = st.bk
    /\ mu = [writer |-> 0, readers |-> {}]
    /\ bus = [p \in Callers |-> IdleFrame]
    /\ busCalls = MaxBusCalls - MaxLiveCalls
    /\ db = SeedDB
    /\ seq = SeedSeq
    /\ txMgr = TRUE
    /\ serving = TRUE
    /\ req = [r \in Requests |-> IdleReq]
    /\ web = IdleWeb

BusLiveSpec ==
    /\ BusLiveInit
    /\ [][BusNext]_vars
    /\ \A p \in Callers :
          /\ SF_vars(PublishRLock(p))
          /\ WF_vars(PublishRUnlock(p))
          /\ SF_vars(PublishDispatch(p))
          /\ WF_vars(PublishReturn(p))
          /\ SF_vars(WriteLock(p))
          /\ WF_vars(Subscribe(p))
          /\ WF_vars(Unsubscribe(p))
          /\ WF_vars(BusReturn(p))

\* the services of a deployment: with or without a transaction manager
Init ==
    /\ handlers = [t \in EventTypes |-> NilSlice]
    /\ backing = [t \in EventTypes |-> NoArrays]
    /\ mu = [writer |-> 0, readers |-> {}]
    /\ bus = [p \in Callers |-> IdleFrame]
    /\ busCalls = 0
    /\ db = SeedDB
    /\ seq = SeedSeq
    /\ txMgr \in BOOLEAN
    /\ serving = FALSE
    /\ req = [r \in Requests |-> IdleReq]
    /\ web = IdleWeb

Next ==
    \/ Startup
    \/ \E r \in Requests :
          \/ Call(r)
          \/ Cancel(r)
          \/ Prepare(r)
          \/ Begin(r)
          \/ RepoWrite(r)
          \/ TxEnd(r)
          \/ Finish(r)

Spec == Init /\ [][Next]_vars

\* the users table a login runs against: the seeded user alone, with a
\* second user, or deleted
UserTables ==
    {SeedDB,
     [SeedDB EXCEPT !.users[2] = UserRow("bob", "b@x")],
     [SeedDB EXCEPT !.users[1].deleted = TRUE]}

\* one request to the HTTP layer, with its inputs
WebInit ==
    /\ handlers = [t \in EventTypes |-> NilSlice]
    /\ backing = [t \in EventTypes |-> NoArrays]
    /\ mu = [writer |-> 0, readers |-> {}]
    /\ bus = [p \in Callers |-> IdleFrame]
    /\ busCalls = 0
    /\ seq = SeedSeq
    /\ txMgr = TRUE
    /\ serving = TRUE
    /\ req = [r \in Requests |-> IdleReq]
    /\ \/ web \in PageRequests /\ db = SeedDB
       \/ web \in AuthRequests /\ db = SeedDB
       \/ web \in LoginRequests /\ db \in UserTables

WebNext == PageStep \/ AuthStep \/ LoginStep

WebSpec == WebInit /\ [][WebNext]_vars

(***************************************************************************)
(* Claims about the event bus.                                             *)
(***************************************************************************)
PublishDone(p) == bus[p].pc = "done" /\ bus[p].kind = "publish"

RemoveAt(s, k) == [j \in 1..(Len(s) - 1) |-> IF j < k THEN s[j] ELSE s[j + 1]]

InSeq(s, x) == \E k \in 1..Len(s) : s[k] = x

\* a is b with some elements left out
RECURSIVE IsSubseq(_, _)
IsSubseq(a, b) ==
    IF a = <<>> THEN TRUE
    ELSE IF b = <<>> THEN FALSE
    ELSE IF Head(a) = Head(b) THEN IsSubseq(Tail(a), Tail(b))
    ELSE IsSubseq(a, Tail(b))

\* the slot of a backing array the next iteration of a dispatching Publish reads
Dispatching(p) == bus[p].pc = "dispatch" /\ bus[p].i < bus[p].snap.len

ReadSlot(p) == <<bus[p].etype, bus[p].snap.cap, bus[p].i + 1>>

\* the slots of backing arrays the call of a caller holding the write lock writes
WriteSlots(q) ==
    LET t == bus[q].etype
        hd == handlers[t]
        k == FirstMatchByPtr(Registry(t), bus[q].h)
    IN IF bus[q].pc # "locked" THEN {}
       ELSE IF bus[q].kind = "subscribe"
       THEN IF hd.len < hd.cap THEN {<<t, hd.cap, hd.len + 1>>} ELSE {}
       ELSE IF k = 0 THEN {} ELSE {<<t, hd.cap, j>> : j \in k..(hd.len - 1)}

\* a dispatch read and a registry write of the same slot are both about to
\* happen, with no lock ordering them
DispatchReadOverlapsWrite ==
    \E p \in Callers : \E q \in Callers \ {p} :
        Dispatching(p) /\ ReadSlot(p) \in WriteSlots(q)

\* caller p completes a Subscribe or Unsubscribe of event type t in this step
Completes(p, kind, t) ==
    /\ bus[p].pc = "locked" /\ bus[p].kind = kind /\ bus[p].etype = t
    /\ bus'[p].pc = "done"

\* C11: under any interleaving of Subscribe, Unsubscribe and Publish calls
\* the registry of an event type changes only by a Subscribe, which adds
\* its handler at the end, and by an Unsubscribe (a call, or a handler that
\* unsubscribes itself while it is dispatched), which removes its handler
\* once when it is registered and nothing otherwise; and no dispatch read
\* of a registry slot overlaps a write of that slot.
C11_RegistryIsSubscribedMinusUnsubscribed ==
    [][/\ ~DispatchReadOverlapsWrite
       /\ \A t \in EventTypes :
             LET old == Registry(t)
                 new == Registry(t)'
             IN /\ \A p \in Callers :
                      /\ Completes(p, "subscribe", t) => new = Append(old, bus[p].h)
                      /\ Completes(p, "unsubscribe", t) =>
                            IF InSeq(old, bus[p].h)
                            THEN \E k \in 1..Len(old) :
                                    old[k] = bus[p].h /\ new = RemoveAt(old, k)
                            ELSE new = old
                /\ (\A p \in Callers : ~Completes(p, "subscribe", t)
                                        /\ ~Completes(p, "unsubscribe", t))
                      => \/ new = old
                         \/ \E k \in 1..Len(old) :
                               old[k] = OnceH /\ new = RemoveAt(old, k)]_vars

\* C8: when Publish returns, the handlers it invoked are handlers that were
\* registered for the event's type when it read the registry, in the order
\* of their subscription and each at most once per subscription, and every
\* such handler that is still registered has been invoked.
C8_PublishInvokesRegisteredInOrder ==
    \A p \in Callers : PublishDone(p) =>
        /\ IsSubseq(bus[p].invoked, bus[p].seen)
        /\ \A k \in 1..Len(bus[p].seen) :
              InSeq(Registry(bus[p].etype), bus[p].seen[k])
                  => InSeq(bus[p].invoked, bus[p].seen[k])

\* C9: when Publish returns, every handler that was registered after a
\* failing one and is still registered has been invoked, the returned error
\* carries every handler error, and it is nil exactly when no handler
\* returned an error.
C9_PublishContinuesAfterFailure ==
    \A p \in Callers : PublishDone(p) =>
        LET reg == bus[p].seen
            failed == {k \in 1..Len(reg) : HandlerResult(reg[k]) # NilErr}
        IN /\ \A k \in failed : \A j \in (k + 1)..Len(reg) :
                  InSeq(Registry(bus[p].etype), reg[j]) => InSeq(bus[p].invoked, reg[j])
           /\ bus[p].ret = PublishError(bus[p].errs)
           /\ (bus[p].ret = NilErr) <=> (\A n \in 1..Len(bus[p].invoked) :
                                            HandlerResult(bus[p].invoked[n]) = NilErr)

\* C10: Unsubscribe(t, h) removes one occurrence of h and nothing else from
\* the list of t, keeps the order of the rest, leaves the lists of the other
\* types alone, and changes nothing when h is not in the list of t.
C10_UnsubscribeRemovesGivenHandlerOnly ==
    [][\A p \in Callers :
          (bus[p].pc = "locked" /\ bus[p].kind = "unsubscribe" /\ bus'[p].pc = "done") =>
             LET t == bus[p].etype
                 h == bus[p].h
                 old == Registry(t)
                 new == Registry(t)'
             IN /\ InSeq(old, h) =>
                      \E k \in 1..Len(old) : old[k] = h /\ new = RemoveAt(old, k)
                /\ ~InSeq(old, h) => new = old
                /\ \A u \in EventTypes \ {t} : Registry(u)' = Registry(u)]_vars

(***************************************************************************)
(* Claims about the transaction manager, the repositories and the services.*)
(***************************************************************************)
Last(s) == s[Len(s)]

Returned(r) == req[r].pc = "done"

\* the id of the entity the call of request r is about
EntityID(r) == IF req[r].call.op = "create" THEN req[r].newID ELSE req[r].call.id

\* the committed row of that entity
CommittedRow(r) == db[Table(req[r].call.svc)][EntityID(r)]

\* no other request has changed the tables
Alone(r) == \A o \in Requests \ {r} : req[o].durable = <<>>

\* C1: a repository write that was given a context carrying a transaction
\* handle runs on that transaction: as long as the transaction has not
\* committed, and after it was rolled back, the write is not in the tables.
C1_WriteWithTxCtxRunsOnTransaction ==
    \A r \in Requests :
        (req[r].tx \in {"open", "rolledback"} /\ req[r].made # <<>>)
            => \A k \in 1..Len(req[r].made) : ~InSeq(req[r].durable, req[r].made[k])

\* C2: a users or posts Create, Update or Delete of a service with a
\* transaction manager whose persistence step (WithTransaction) failed has
\* left none of its writes in the tables and has published no event.
C2_FailedPersistenceLeavesNoTrace ==
    \A r \in Requests :
        (Returned(r) /\ txMgr /\ req[r].call.svc \in {"users", "posts"}
                     /\ req[r].persistErr # NilErr)
            => /\ req[r].durable = <<>>
               /\ Alone(r) => db = SeedDB
               /\ req[r].pubs = <<>>

\* C3: when fn returned an error, the transaction is rolled back and
\* WithTransaction returns exactly fn's error.
C3_FnErrorRollsBackAndIsReturnedUnchanged ==
    \A r \in Requests :
        (req[r].pc \in {"after", "done"} /\ req[r].fnErr # NilErr)
            => /\ req[r].tx = "rolledback"
               /\ req[r].persistErr = req[r].fnErr
               /\ req[r].durable = <<>>

C3_Witness ==
    \E r \in Requests :
        /\ req[r].pc = "after" /\ req[r].fnErr # NilErr
        /\ req[r].tx = "rolledback" /\ req[r].persistErr = req[r].fnErr

\* C4: when fn returned nil, WithTransaction either committed, returned nil
\* and every write made with txCtx is in the tables, or the commit failed,
\* WithTransaction returned the commit's failure and none of the writes made
\* with txCtx is in the tables.
C4_CommitDecidesVisibility ==
    \A r \in Requests :
        (req[r].pc \in {"after", "done"} /\ req[r].tx # "none" /\ req[r].fnErr = NilErr)
            => \/ /\ req[r].tx = "committed"
                  /\ req[r].persistErr = NilErr
                  /\ \A k \in 1..Len(req[r].made) : InSeq(req[r].durable, req[r].made[k])
               \/ /\ req[r].tx = "rolledback"
                  /\ req[r].persistErr = ErrCommit
                  /\ \A k \in 1..Len(req[r].made) : ~InSeq(req[r].durable, req[r].made[k])

\* C5: a users or posts Create, Update or Delete that returned success has
\* published exactly one event, of the type of the operation and about the
\* entity; one that returned an error has published none.
C5_OneEventOnSuccessNoneOnError ==
    \A r \in Requests :
        (Returned(r) /\ req[r].call.svc \in {"users", "posts"}) =>
            /\ req[r].err = NilErr => req[r].pubs = <<EventOf(req[r].call, EntityID(r))>>
            /\ req[r].err # NilErr => req[r].pubs = <<>>

C5_Witness ==
    \E r \in Requests : \E o \in Requests :
        /\ Returned(r) /\ req[r].err = NilErr /\ Len(req[r].pubs) = 1
        /\ Returned(o) /\ req[o].persistErr # NilErr /\ req[o].pubs = <<>>

\* C6: a method publishes only when its write is in the tables: after the
\* successful commit of WithTransaction when the service has a transaction
\* manager; the context it gives to Publish carries no transaction handle,
\* and a handler reading the entity through it reads the committed row,
\* which is the written row when no other request wrote.
C6_PublishAfterCommitWithPlainCtx ==
    [][\A r \in Requests :
          (req[r].pc = "after" /\ req'[r].pc = "done" /\ req'[r].pubs # <<>>) =>
              /\ txMgr => req[r].tx = "committed"
              /\ req[r].durable # <<>>
              /\ ~req'[r].pubCtxTx
              /\ req'[r].saw = CommittedRow(r)
              /\ Alone(r) => req'[r].saw = Last(req[r].durable).row]_vars

C6_Witness ==
    \E r \in Requests :
        /\ Returned(r) /\ txMgr /\ req[r].tx = "committed"
        /\ req[r].pubs # <<>> /\ ~req[r].pubCtxTx
        /\ Registry(EventType(req[r].call)) # <<>>
        /\ req[r].saw = Last(req[r].durable).row

\* C7: when a handler returned an error for the event of a call whose
\* persistence succeeded, the call returns success and its write is still
\* in the tables.
C7_HandlerErrorDoesNotFailTheCall ==
    \A r \in Requests :
        (Returned(r) /\ req[r].persistErr = NilErr /\ req[r].pubErr # NilErr)
            => /\ req[r].err = NilErr
               /\ req[r].durable # <<>>
               /\ Alone(r) => CommittedRow(r) = Last(req[r].durable).row

C7_Witness ==
    \E r \in Requests :
        /\ Returned(r) /\ req[r].pubErr # NilErr /\ req[r].err = NilErr
        /\ req[r].durable # <<>>
        /\ CommittedRow(r) = Last(req[r].durable).row

\* errors.Is(err, kind) along the %w chain of err
IsKind(err, kind) == InSeq(err, kind)

\* the error stems from a failure of the storage, not from a check
StorageFailed(err) == IsKind(err, "storage error")

\* the input fields of the call pass the validation of the domain model
InputValid(c) ==
    CASE c.svc = "users" /\ c.op = "create" ->
            UserValidate(c.username, c.email) = NilErr /\ SetPassword(c.password) = NilErr
      [] c.svc = "users" /\ c.op = "update" ->
            /\ c.username # Nil => UpdateUsername(c.username) = NilErr
            /\ c.email # Nil => UpdateEmail(c.email) = NilErr
      [] c.svc = "posts" /\ c.op = "create" -> PostValidate(c.title, c.content) = NilErr
      [] c.svc = "posts" /\ c.op = "update" ->
            /\ c.title # Nil => UpdateTitle(c.title) = NilErr
            /\ c.content # Nil => UpdateContent(c.content) = NilErr
      [] OTHER -> TRUE

\* a precondition of the call does not hold on the rows d: the referenced
\* user does not exist, the acting user is not the owner, or the username
\* or email is held by a (another) user
PreconditionFails(c, d) ==
    CASE c.svc = "posts" /\ c.op = "create" -> ~Visible(d.users[c.userID])
      [] c.svc = "posts" ->
            Visible(d.posts[c.id]) /\ d.posts[c.id].userID # c.userID
      [] c.svc = "comments" /\ c.op # "create" ->
            Visible(d.comments[c.id]) /\ d.comments[c.id].userID # c.userID
      [] c.svc = "users" /\ c.op = "create" ->
            \E i \in IDs : /\ Visible(d.users[i])
                           /\ d.users[i].username = c.username \/ d.users[i].email = c.email
      [] c.svc = "users" /\ c.op = "update" ->
            /\ Visible(d.users[c.id])
            /\ \E i \in IDs \ {c.id} :
                  /\ Visible(d.users[i])
                  /\ d.users[i].username = c.username \/ d.users[i].email = c.email
      [] OTHER -> FALSE

\* the typed error of the failed precondition
IsPreconditionError(c, err) ==
    CASE c.svc = "posts" /\ c.op = "create" -> IsKind(err, "not found")
      [] c.svc = "posts" -> err = ErrForbidden
      [] c.svc = "comments" -> err = ErrCommentForbidden /\ IsKind(err, "forbidden")
      [] OTHER -> err = ErrUserAlreadyExists /\ IsKind(err, "conflict")

\* the call of request r has not invoked WithTransaction, written or published
NothingDone(f) ==
    /\ ~InSeq(f.phases, "tx") /\ ~InSeq(f.phases, "write") /\ ~InSeq(f.phases, "publish")
    /\ f.tx = "none" /\ f.pending = <<>> /\ f.made = <<>> /\ f.durable = <<>>
    /\ f.pubs = <<>>

\* C12: when a precondition of a mutating call fails (and the storage does
\* not), the call ends with an error, which is the typed error of the
\* precondition when the input is valid, without invoking WithTransaction,
\* without a repository write and without an event; the tables are unchanged.
C12_FailedPreconditionOpensNoTransaction ==
    [][\A r \in Requests :
          (/\ req[r].pc = "entered" /\ req'[r].pc # "entered"
           /\ PreconditionFails(req[r].call, db)
           /\ ~StorageFailed(req'[r].err))
            => /\ req'[r].pc = "done"
               /\ req'[r].err # NilErr
               /\ InputValid(req[r].call) => IsPreconditionError(req[r].call, req'[r].err)
               /\ NothingDone(req'[r])
               /\ db' = db /\ seq' = seq]_vars

C12_Witness ==
    \E r \in Requests :
        /\ Returned(r) /\ txMgr
        /\ req[r].call.svc = "posts" /\ req[r].call.op = "create"
        /\ IsKind(req[r].err, "not found")
        /\ NothingDone(req[r])
        /\ Alone(r) /\ db.posts = SeedDB.posts

\* the Forbidden error of a service
ForbiddenOf(svc) == IF svc = "comments" THEN ErrCommentForbidden ELSE ErrForbidden

\* the call is an Update or Delete of a post or comment that exists in d,
\* by a user who is not its owner
ByNonOwner(c, d) ==
    /\ c.svc \in {"posts", "comments"} /\ c.op \in {"update", "delete"}
    /\ Visible(d[Table(c.svc)][c.id])
    /\ d[Table(c.svc)][c.id].userID # c.userID

\* C13: an Update or Delete of a post or of a comment by a user other than
\* its owner returns the Forbidden error (unless the storage fails), makes
\* no repository write and publishes no event; GetByID returns the entity
\* with all fields as before.
C13_NonOwnerIsForbiddenAndChangesNothing ==
    [][\A r \in Requests :
          (/\ req[r].pc = "entered" /\ req'[r].pc # "entered"
           /\ ByNonOwner(req[r].call, db)
           /\ ~StorageFailed(req'[r].err))
            => /\ req'[r].pc = "done"
               /\ req'[r].err = ForbiddenOf(req[r].call.svc)
               /\ NothingDone(req'[r])
               /\ GetByID(db', Table(req[r].call.svc), req[r].call.id)
                    = GetByID(db, Table(req[r].call.svc), req[r].call.id)]_vars

C13_Witness ==
    \E r \in Requests : \E o \in Requests :
        /\ Returned(r) /\ req[r].call.svc = "posts" /\ req[r].call.op = "update"
        /\ req[r].err = ErrForbidden /\ req[r].phases = <<"read">>
        /\ Returned(o) /\ req[o].call.svc = "comments" /\ req[o].call.op = "delete"
        /\ req[o].err = ErrCommentForbidden
        /\ GetByID(db, "posts", req[r].call.id) = SeedDB.posts[req[r].call.id]
        /\ GetByID(db, "comments", req[o].call.id) = SeedDB.comments[req[o].call.id]

\* a user of the rows d (one that GetByID, GetByUsername or GetByEmail can
\* return) holds the username or the email
HeldByUser(d, username, email) ==
    \E i \in IDs :
        /\ Visible(d.users[i])
        /\ d.users[i].username = username \/ d.users[i].email = email

UsersCreate(c) == c.svc = "users" /\ c.op = "create"

\* request r makes its repository write in this step
Writes(r) == req'[r].phases = Append(req[r].phases, "write")

\* the error that repository write returned
WriteErr(f) == IF f.pc = "txend" THEN f.fnErr ELSE f.persistErr

\* C14: users Create with valid input, the storage not failing: when a user
\* holds the username or the email, the call returns ErrAlreadyExists,
\* creates no row and publishes no event; when no user holds them, the
\* repository write creates exactly one row, under the id the storage
\* assigned (> 0), and the call publishes UserCreated with that id.
C14_CreateConflictsOrCreatesOneRow ==
    [][\A r \in Requests :
          LET c == req[r].call
          IN UsersCreate(c) =>
              /\ (/\ req[r].pc = "entered" /\ req'[r].pc # "entered"
                  /\ InputValid(c) /\ HeldByUser(db, c.username, c.email)
                  /\ ~StorageFailed(req'[r].err))
                   => /\ req'[r].pc = "done"
                      /\ req'[r].err = ErrUserAlreadyExists
                      /\ NothingDone(req'[r])
                      /\ db' = db
              /\ (/\ Writes(r)
                  /\ ~HeldByUser(db, c.username, c.email)
                  /\ ~StorageFailed(WriteErr(req'[r])))
                   => /\ WriteErr(req'[r]) = NilErr
                      /\ req'[r].newID > 0
                      /\ req'[r].newID = seq.users
                      /\ req'[r].pending \o req'[r].durable
                           = <<Write("users", req'[r].newID, UserRow(c.username, c.email))>>
              /\ (req[r].pc = "after" /\ req'[r].pc = "done" /\ req'[r].err = NilErr)
                   => /\ req'[r].pubs = <<EventOf(c, req[r].newID)>>
                      /\ req[r].newID > 0
                      /\ req[r].durable
                           = <<Write("users", req[r].newID, UserRow(c.username, c.email))>>]_vars

\* the call ended in a failure of the infrastructure (a failed statement,
\* Begin or Commit), not in a decision of the program
InfrastructureFailed(err) ==
    StorageFailed(err) \/ IsKind(err, "begin failed") \/ IsKind(err, "commit failed")

\* the call created its row and published UserCreated about it
CreatedUser(f) ==
    /\ f.err = NilErr
    /\ f.durable = <<Write("users", f.newID, UserRow(f.call.username, f.call.email))>>
    /\ f.pubs = <<EventOf(f.call, f.newID)>>

\* C15: two concurrent users Create calls with valid input and the same
\* username or the same email, free before, and no failure of the
\* infrastructure: however they interleave, exactly one creates a row and
\* publishes UserCreated and the other returns ErrAlreadyExists.
C15_ConcurrentCreatesAreSerializable ==
    \A r \in Requests : \A o \in Requests \ {r} :
        LET c == req[r].call
            e == req[o].call
        IN (/\ Returned(r) /\ Returned(o)
            /\ UsersCreate(c) /\ UsersCreate(e)
            /\ InputValid(c) /\ InputValid(e)
            /\ c.username = e.username \/ c.email = e.email
            /\ ~HeldByUser(SeedDB, c.username, c.email)
            /\ ~HeldByUser(SeedDB, e.username, e.email)
            /\ ~InfrastructureFailed(req[r].err) /\ ~InfrastructureFailed(req[o].err))
             => \/ CreatedUser(req[r]) /\ req[o].err = ErrUserAlreadyExists
                \/ CreatedUser(req[o]) /\ req[r].err = ErrUserAlreadyExists

Tables == {"users", "posts", "comments"}

\* the call was a Delete of a post that returned nil
DeletedPost(f) == f.pc = "done" /\ f.call.svc = "posts" /\ f.call.op = "delete" /\ f.err = NilErr

\* C16: once a Delete of a post by its owner has returned nil, GetByID of
\* that id finds nothing, List and Count leave the post out, and the row
\* is still in the table with its deletion mark set; and no step removes a
\* row from a table.
C16_DeletedPostStaysDeletedAndStored ==
    [][/\ \A t \in Tables : \A i \in IDs : db[t][i].exists => db'[t][i].exists
       /\ \A r \in Requests :
             DeletedPost(req'[r]) =>
                LET id == req'[r].call.id
                IN /\ ~GetByID(db', "posts", id).exists
                   /\ id \notin PostsList(db')
                   /\ PostsCount(db') = Cardinality(PostsList(db') \ {id})
                   /\ db'.posts[id].exists /\ db'.posts[id].deleted]_vars

\* C17: when the request context was cancelled after WithTransaction had
\* begun and before it returned, the transaction is rolled back,
\* WithTransaction returns an error, none of the writes made with txCtx is
\* in the tables, and the call publishes no event.
C17_CancellationRollsBack ==
    \A r \in Requests :
        (req[r].pc \in {"after", "done"} /\ req[r].cancelledAt \in {"fn", "txend"})
            => /\ req[r].tx = "rolledback"
               /\ req[r].persistErr # NilErr
               /\ \A k \in 1..Len(req[r].made) : ~InSeq(req[r].durable, req[r].made[k])
               /\ req[r].pubs = <<>>

(***************************************************************************)
(* The HTTP handlers of the users and posts packages.  A handler compares  *)
(* the error of the service with a sentinel by ==, which is identity: a    *)
(* chain that wraps the sentinel is another error.                         *)
(***************************************************************************)
\* the status a handler answers with when the service returned no error
SuccessStatus(op) ==
    CASE op = "create" -> StatusCreated
      [] op = "delete" -> StatusNoContent
      [] OTHER -> StatusOK

\* users.Handler.Create / Get / Update / Delete on the error of the service
UsersHandlerStatus(op, err) ==
    IF err = NilErr THEN SuccessStatus(op)
    ELSE IF op = "create"
    THEN IF err = ErrUserAlreadyExists THEN StatusConflict
         ELSE StatusInternalServerError
    ELSE IF err = ErrUserNotFound THEN StatusNotFound
    ELSE IF op = "update" /\ err = ErrUserAlreadyExists THEN StatusConflict
    ELSE StatusInternalServerError

\* posts.Handler.Create / Get / Update / Delete on the error of the service
PostsHandlerStatus(op, err) ==
    IF err = NilErr THEN SuccessStatus(op)
    ELSE IF err = ErrPostNotFound THEN StatusNotFound
    ELSE IF op \in {"update", "delete"} /\ err = ErrForbidden THEN StatusForbidden
    ELSE StatusInternalServerError

HandlerStatus(svc, op, err) ==
    IF svc = "users" THEN UsersHandlerStatus(op, err) ELSE PostsHandlerStatus(op, err)

\* users.Service.GetByID / posts.Service.GetByID on the rows d: the error
ServiceGetByID(d, svc, id) ==
    IF GetByID(d, svc, id).exists THEN NilErr
    ELSE Wrap(IF svc = "users" THEN "failed to get user by id"
              ELSE "failed to get post by id",
              RepoNotFound(svc))

\* the error chain err ends in the error cause
CausedBy(err, cause) ==
    /\ Len(err) >= Len(cause)
    /\ SubSeq(err, Len(err) - Len(cause) + 1, Len(err)) = cause

\* C18: every error kind reaches the client as one HTTP status: a Get,
\* Update or Delete of a user or post id that does not exist is answered
\* 404, an Update or Delete of a post by a non-owner 403, a users Create with
\* a taken username or email 409, and 500 answers only a failure of the
\* storage or of the transport.
C18_ErrorKindsMapToStatuses ==
    /\ \A svc \in {"users", "posts"} : \A id \in IDs :
          ~GetByID(db, svc, id).exists
            => HandlerStatus(svc, "get", ServiceGetByID(db, svc, id)) = StatusNotFound
    /\ \A r \in Requests :
          (Returned(r) /\ req[r].call.svc \in {"users", "posts"})
            => LET c == req[r].call
                   err == req[r].err
                   status == HandlerStatus(c.svc, c.op, err)
               IN /\ (c.op \in {"update", "delete"} /\ CausedBy(err, RepoNotFound(c.svc)))
                        => status = StatusNotFound
                  /\ (c.svc = "posts" /\ CausedBy(err, ErrForbidden))
                        => status = StatusForbidden
                  /\ (c.svc = "users" /\ c.op = "create"
                        /\ CausedBy(err, ErrUserAlreadyExists))
                        => status = StatusConflict
                  /\ status = StatusInternalServerError => InfrastructureFailed(err)

\* the write of the call of request r ran inside WithTransaction
WroteInTransaction(f) ==
    \E k \in 1..Len(f.phases) :
        /\ f.phases[k] = "write"
        /\ k > 1 /\ f.phases[k - 1] = "tx"
        /\ f.tx # "none"

\* C19: the comments service follows the pattern of the users and posts
\* services: with a transaction manager configured its Create, Update and
\* Delete run the repository write inside WithTransaction, and each
\* successful Create, Update or Delete publishes exactly one domain event.
C19_CommentsUseTransactionAndPublish ==
    \A r \in Requests :
        (Returned(r) /\ req[r].call.svc = "comments")
            => /\ (txMgr /\ InSeq(req[r].phases, "write")) => WroteInTransaction(req[r])
               /\ req[r].err = NilErr => Len(req[r].pubs) = 1

\* the place of a step in the order Validating, CheckingPreconditions,
\* InTransaction (Begin, then the write), PublishingEvent
PhaseRank(step) ==
    CASE step = "validate" -> 1
      [] step = "read" -> 2
      [] step = "tx" -> 3
      [] step = "write" -> 4
      [] OTHER -> 5

\* C20: a mutating users or posts call passes through Validating,
\* CheckingPreconditions, InTransaction and PublishingEvent in that order:
\* the validation of the input is finished before the first precondition
\* read on a repository, the repository write is attempted at most once, and
\* a returned call was either rejected with an error or went through to the
\* publication of its event.
C20_PhasesInOrder ==
    \A r \in Requests :
        req[r].call.svc \in {"users", "posts"}
            => LET steps == req[r].phases
               IN /\ \A i, j \in 1..Len(steps) :
                        i < j => PhaseRank(steps[i]) <= PhaseRank(steps[j])
                  /\ Cardinality({k \in 1..Len(steps) : steps[k] = "write"}) <= 1
                  /\ Returned(r)
                        => \/ req[r].err # NilErr
                           \/ /\ InSeq(steps, "write")
                              /\ Last(steps) = "publish"

\* the number of repository writes the call attempted
WritesAttempted(f) == Cardinality({k \in 1..Len(f.phases) : f.phases[k] = "write"})

\* C21: without a transaction manager a users or posts Create, Update or
\* Delete calls the repository operation directly with the caller's context
\* exactly once, the statement runs on the default connection (what it
\* writes is in the tables at once, no transaction is opened), and the call
\* behaves as with a manager: on success its one write is stored and one
\* event about the entity is published, on failure nothing is stored and
\* nothing is published.
C21_NoManagerCallsRepositoryDirectly ==
    \A r \in Requests :
        (~txMgr /\ req[r].call.svc \in {"users", "posts"})
            => /\ req[r].tx = "none" /\ ~InSeq(req[r].phases, "tx")
               /\ req[r].pending = <<>> /\ req[r].made = <<>>
               /\ WritesAttempted(req[r]) <= 1
               /\ req[r].pc \in {"after", "done"} /\ req[r].persistErr = NilErr
                    /\ InSeq(req[r].phases, "write")
                    => /\ Len(req[r].durable) = 1
                       /\ req[r].durable[1].table = Table(req[r].call.svc)
                       /\ req[r].durable[1].id = EntityID(r)
               /\ Returned(r)
                    => /\ req[r].err = NilErr
                          => /\ WritesAttempted(req[r]) = 1
                             /\ Len(req[r].durable) = 1
                             /\ req[r].pubs = <<EventOf(req[r].call, EntityID(r))>>
                       /\ req[r].err # NilErr
                          => /\ req[r].durable = <<>>
                             /\ req[r].pubs = <<>>

C21_Witness ==
    \E r \in Requests :
        /\ Returned(r) /\ ~txMgr
        /\ req[r].call.svc = "users" /\ req[r].call.op = "delete"
        /\ req[r].err = NilErr
        /\ req[r].phases = <<"read", "write", "publish">>
        /\ Len(req[r].pubs) = 1
        /\ Alone(r) /\ ~Visible(CommittedRow(r))

(***************************************************************************)
(* Claims about the HTTP layer.                                            *)
(***************************************************************************)
RECURSIVE Pow10(_)
Pow10(k) == IF k = 0 THEN 1 ELSE 10 * Pow10(k - 1)

\* the part of a parameter after its sign
Unsigned(str) == IF str # <<>> /\ str[1] \in {"-", "+"} THEN Tail(str) ELSE str

\* the parameter is a decimal number: an optional sign and digits
IsNumber(str) ==
    /\ Unsigned(str) # <<>>
    /\ \A k \in 1..Len(Unsigned(str)) : Unsigned(str)[k] \in {"0", "1", "5"}

RECURSIVE PlaceSum(_, _)
PlaceSum(digits, k) ==
    IF k > Len(digits) THEN 0
    ELSE (CASE digits[k] = "0" -> 0 [] digits[k] = "1" -> 1 [] OTHER -> 5)
            * Pow10(Len(digits) - k)
         + PlaceSum(digits, k + 1)

\* the number a decimal parameter denotes
ValueOf(str) ==
    IF str[1] = "-" THEN 0 - PlaceSum(Unsigned(str), 1) ELSE PlaceSum(Unsigned(str), 1)

\* C22: GetPaginationParams returns limit 20 and offset 0 when the
\* parameters are absent; a limit that parses to n > 0 gives min(n, 100), a
\* limit that is not a number or is <= 0 gives 20; an offset that parses to
\* n >= 0 gives n, an offset that is not a number or is negative gives 0; so
\* 1 <= limit <= 100 and offset >= 0 for every request.
C22_PaginationDefaultsAndCap ==
    (web.pc = "answered" /\ web.op = "page")
        => LET l == web.limitStr
               o == web.offsetStr
               limit == web.page.limit
               offset == web.page.offset
           IN /\ l = <<>> => limit = 20
              /\ o = <<>> => offset = 0
              /\ (IsNumber(l) /\ ValueOf(l) > 0)
                    => limit = IF ValueOf(l) < 100 THEN ValueOf(l) ELSE 100
              /\ (~IsNumber(l) \/ ValueOf(l) <= 0) => limit = 20
              /\ (IsNumber(o) /\ ValueOf(o) >= 0) => offset = ValueOf(o)
              /\ (~IsNumber(o) \/ ValueOf(o) < 0) => offset = 0
              /\ 1 <= limit /\ limit <= 100 /\ offset >= 0

C22_Witness ==
    /\ web.pc = "answered" /\ web.op = "page"
    /\ web.limitStr = <<"1", "5", "0">> /\ web.page.limit = 100
    /\ web.offsetStr = <<"-", "5">> /\ web.page.offset = 0

\* the header gives the token as "Bearer <token>" or as the bare token
CarriesToken(authHeader, token) ==
    authHeader = <<"Bearer", Space>> \o token \/ authHeader = token

\* C23: AuthMiddleware runs the wrapped handler only if the Authorization
\* header carries a token that ValidateToken accepts, given as
\* "Bearer <token>" or as the bare token, and then the request context
\* carries the user id of that token (GetUserID returns it with ok = true);
\* in every other case it answers 401 and the wrapped handler is not run.
C23_AuthMiddlewareAdmitsValidTokensOnly ==
    (web.pc = "answered" /\ web.op = "auth")
        => LET accepted == {w \in Words : /\ ValidateToken(<<w>>).err = NilErr
                                          /\ CarriesToken(web.authHeader, <<w>>)}
           IN /\ web.auth.next <=> accepted # {}
              /\ \A w \in accepted :
                    GetUserID(web.auth.ctx)
                        = [userID |-> ValidateToken(<<w>>).userID, ok |-> TRUE]
              /\ ~web.auth.next
                    => /\ web.auth.status = StatusUnauthorized
                       /\ ~GetUserID(web.auth.ctx).ok

C23_Witness ==
    /\ web.pc = "answered" /\ web.op = "auth"
    /\ web.authHeader = <<"tok2">>
    /\ web.auth.next
    /\ GetUserID(web.auth.ctx) = [userID |-> 2, ok |-> TRUE]

\* the stored users that have the email of the login request
UsersWithEmail == {i \in IDs : Visible(db.users[i]) /\ db.users[i].email = web.email}

\* the password of the login request is the one a user registered with
PasswordMatches(id) == StoredPassword(id) = Hash(web.password)

\* C24: Login returns the same error, ErrInvalidCredentials, when no user
\* has the given email and when the password does not match the stored
\* hash; it returns a token only when a user with that email exists and the
\* password matches; a storage failure other than not-found is returned as
\* a different, wrapped error.
C24_LoginHidesWhichCredentialFailed ==
    (web.pc = "answered" /\ web.op = "login")
        => LET res == web.login
               known == UsersWithEmail # {}
               matching == \E i \in UsersWithEmail : PasswordMatches(i)
           IN /\ (~web.readFail /\ ~known) => res.err = ErrInvalidCredentials
              /\ (~web.readFail /\ known /\ ~matching) => res.err = ErrInvalidCredentials
              /\ res.err = NilErr <=> (~web.readFail /\ known /\ matching)
              /\ IF res.err = NilErr
                 THEN res.token.userID \in UsersWithEmail /\ res.token.email = web.email
                 ELSE res.token = NoToken
              /\ web.readFail
                    => /\ res.err \notin {NilErr, ErrInvalidCredentials}
                       /\ CausedBy(res.err, ErrStorage)

C24_Witness ==
    /\ web.pc = "answered" /\ web.op = "login"
    /\ ~web.readFail
    /\ UsersWithEmail = {1} /\ ~PasswordMatches(1)
    /\ web.login.err = ErrInvalidCredentials

\* the number of WithTransaction invocations of the call
Invocations(f) == Cardinality({k \in 1..Len(f.phases) : f.phases[k] = "tx"})

\* the step is a statement of request r on its transaction handle
UsesHandle(r) == req'[r].pending # req[r].pending

\* C25: every WithTransaction invocation opens one storage transaction
\* (none when Begin fails) and ends it exactly once, by commit or by
\* rollback, before it returns; after it has returned nothing executes
\* against the handle (no repository write, and the context given to the
\* event handlers does not carry it); the handle is used only by the flow of
\* control that called WithTransaction.
C25_HandleLivesWithinOneInvocation ==
    [][\A r \in Requests :
          /\ req'[r].tx # req[r].tx
                => \/ /\ req[r].tx = "none" /\ req'[r].tx = "open"
                      /\ req[r].pc = "persist" /\ req'[r].pc = "fn"
                      /\ Invocations(req'[r]) = Invocations(req[r]) + 1
                   \/ /\ req[r].tx = "open" /\ req'[r].tx \in {"committed", "rolledback"}
                      /\ req[r].pc = "txend" /\ req'[r].pc = "after"
          /\ Invocations(req'[r]) <= 1
          /\ req'[r].tx # "none" => Invocations(req'[r]) = 1
          /\ req'[r].pc \in {"fn", "txend"} <=> req'[r].tx = "open"
          /\ req'[r].pc \in {"after", "done"} => req'[r].tx # "open"
          /\ UsesHandle(r)
                => /\ req[r].tx = "open" /\ req[r].pc = "fn"
                   /\ \A o \in Requests \ {r} : req'[o] = req[o]
          /\ req'[r].pc = "done" => ~req'[r].pubCtxTx]_vars

C25_Witness ==
    \E r, o \in Requests :
        /\ Returned(r) /\ req[r].tx = "committed"
        /\ req[r].call.svc = "users" /\ req[r].pending # <<>>
        /\ req[r].durable = req[r].pending
        /\ Returned(o) /\ req[o].tx = "rolledback"
        /\ req[o].call.svc = "users" /\ req[o].durable = <<>>

\* C26: WithTransaction passes fn a derived context that carries the
\* transaction handle (the repository call inside fn is made with it) and
\* leaves the caller's context unchanged: GetDBFromContext on the caller's
\* context returns the default connection during and after the call (what
\* the method reads before and what the handlers read after it come from
\* the tables); and a request context carries at most one active handle: no
\* call opens a second transaction.
C26_DerivedContextCarriesTheOnlyHandle ==
    [][\A r \in Requests :
          /\ GetDBFromContext(r, CallerCtx) = "default"
          /\ (req[r].pc = "fn" /\ req'[r].pc = "txend" /\ req'[r].fnErr = NilErr)
                => /\ req'[r].made # <<>>
                   /\ GetDBFromContext(r, WithTxValue(CallerCtx)) = "tx"
                   /\ req'[r].tx = "open"
          /\ (req[r].pc = "after" /\ req'[r].pc = "done" /\ req'[r].pubs # <<>>)
                => /\ ~req'[r].pubCtxTx
                   /\ req'[r].saw = db[Table(req[r].call.svc)][EntityID(r)]
          /\ req[r].tx = "open" => ~(req[r].pc = "persist" /\ req'[r].pc = "fn")
          /\ Invocations(req'[r]) <= 1]_vars

C26_Witness ==
    \E r \in Requests :
        /\ req[r].pc = "txend" /\ req[r].tx = "open"
        /\ req[r].call.svc = "users" /\ req[r].call.op = "update"
        /\ req[r].made # <<>> /\ req[r].pending = req[r].made
        /\ db.users[req[r].call.id] # Last(req[r].made).row

\* requests r and o made successful Update calls on the same post (user),
\* r changing only the title (username) and o only the content (email), and
\* each built its row from a read that did not see the other's change
StaleUpdates(r, o) ==
    LET c == req[r].call
        e == req[o].call
    IN /\ Returned(r) /\ Returned(o) /\ req[r].err = NilErr /\ req[o].err = NilErr
       /\ c.op = "update" /\ e.op = "update" /\ c.svc = e.svc /\ c.id = e.id
       /\ \/ /\ c.svc = "posts"
             /\ c.title # Nil /\ c.content = Nil /\ e.title = Nil /\ e.content # Nil
             /\ req[r].model.content # e.content /\ req[o].model.title # c.title
          \/ /\ c.svc = "users"
             /\ c.username # Nil /\ c.email = Nil /\ e.username = Nil /\ e.email # Nil
             /\ req[r].model.email # e.email /\ req[o].model.username # c.username

\* C27: two concurrent Update calls on the same post (or user), each
\* changing a different field, can both return success and publish their
\* event while the stored entity holds only one of the two changes: whenever
\* both built their row before the other's write, the stored row is the
\* whole row of one of them (the last write wins) and the other's change is
\* gone.
C27_ConcurrentUpdatesLastWriteWins ==
    \A r, o \in Requests :
        StaleUpdates(r, o)
            => /\ Len(req[r].pubs) = 1 /\ Len(req[o].pubs) = 1
               /\ CommittedRow(r) \in {req[r].model, req[o].model}
               /\ req[r].model # req[o].model

C27_Witness ==
    \E r, o \in Requests :
        /\ StaleUpdates(r, o)
        /\ req[r].call.svc = "posts"
        /\ Len(req[r].pubs) = 1 /\ Len(req[o].pubs) = 1
        /\ CommittedRow(r).title = req[r].call.title
        /\ CommittedRow(r).content # req[o].call.content

(***************************************************************************)
(* Further claims about the event bus.                                     *)
(***************************************************************************)
\* how often x occurs in the sequence s
Occurrences(s, x) == Cardinality({k \in 1..Len(s) : s[k] = x})

\* C28: a Publish that runs concurrently with Subscribe or Unsubscribe calls
\* for its event type invokes each handler at most once per subscription
\* and only handlers that were in the registry when it read the registry
\* under the lock; the concurrent calls do not change the list it iterates
\* over, so what it invoked is the list it read.  (Publishes whose list
\* holds a handler that unsubscribes itself are left aside: that is no
\* concurrent call.)
C28_PublishIteratesOverItsSnapshot ==
    \A p \in Callers :
        (PublishDone(p) /\ ~InSeq(bus[p].seen, OnceH))
            => /\ \A h \in Handlers :
                     Occurrences(bus[p].invoked, h) <= Occurrences(bus[p].seen, h)
               /\ \A k \in 1..Len(bus[p].invoked) : InSeq(bus[p].seen, bus[p].invoked[k])
               /\ bus[p].invoked = bus[p].seen

\* the handlers that call back into the bus while Publish invokes them
ReentrantHandlers == {OnceH, PubH, SubH}

\* C29: the event bus never deadlocks: a Publish whose handlers call
\* Subscribe, Unsubscribe or Publish on the same bus returns, and every
\* Publish, Subscribe and Unsubscribe call that was started eventually
\* returns (every handler of the model returns once its own bus call does).
C29_EveryBusCallReturns ==
    \A p \in Callers : (bus[p].pc # "idle") ~> (bus[p].pc = "done")

\* a Publish has returned after each re-entrant handler ran during it, while
\* the other caller's call is still under way
C29_Witness ==
    \E p \in Callers :
        /\ bus[p].pc = "done" /\ bus[p].kind = "publish"
        /\ \A h \in ReentrantHandlers : InSeq(bus[p].invoked, h)
        /\ \E q \in Callers \ {p} : bus[q].pc \in {"lock", "locked", "runlock", "dispatch"}

(***************************************************************************)
(* Concurrent Delete calls.                                                *)
(***************************************************************************)
\* requests r and o have returned from Delete calls, by the owner, on the
\* same stored post (or on the same stored user), neither ending in a failure
\* of the infrastructure
RacingDeletes(r, o) ==
    LET c == req[r].call
        e == req[o].call
    IN /\ r # o
       /\ Returned(r) /\ Returned(o)
       /\ c.op = "delete" /\ e.op = "delete"
       /\ c.svc = e.svc /\ c.svc \in {"posts", "users"} /\ c.id = e.id
       /\ Visible(SeedDB[Table(c.svc)][c.id])
       /\ c.svc = "posts" =>
             /\ c.userID = SeedDB.posts[c.id].userID
             /\ e.userID = SeedDB.posts[c.id].userID
       /\ ~InfrastructureFailed(req[r].err) /\ ~InfrastructureFailed(req[o].err)

\* the call deleted the entity and published its one event
DeletedAndPublished(f) ==
    /\ f.err = NilErr
    /\ f.pubs = <<EventOf(f.call, f.call.id)>>

\* the call was told the entity is gone and published nothing
RefusedAsGone(f) ==
    /\ CausedBy(f.err, RepoNotFound(f.call.svc))
    /\ f.pubs = <<>>

\* C30: however two concurrent Delete calls by the owner on the same post
\* (or two users Delete calls on the same user) interleave, exactly one
\* returns success and publishes the one PostDeleted (UserDeleted) event;
\* the other returns the not-found error and publishes nothing.
C30_ConcurrentDeletesOneWins ==
    \A r, o \in Requests :
        RacingDeletes(r, o)
            => \/ DeletedAndPublished(req[r]) /\ RefusedAsGone(req[o])
               \/ DeletedAndPublished(req[o]) /\ RefusedAsGone(req[r])

\* both calls read the post before either deleted it; the loser learnt from
\* the Delete statement, which affected no row, that the post was gone
C30_Witness ==
    \E r, o \in Requests :
        /\ RacingDeletes(r, o)
        /\ req[r].call.svc = "posts"
        /\ DeletedAndPublished(req[r]) /\ RefusedAsGone(req[o])
        /\ Visible(req[o].model)
        /\ Visible(req[r].model)
====
